---- MODULE Spec2Model ----
(***************************************************************************)
(* State-machine model of the Beacon Identity worker                       *)
(* (src/src/identity/worker.ts) and of the payment dispatcher it calls     *)
(* (src/src/identity/wallet_manager.ts).                                   *)
(*                                                                         *)
(* Every inbound message is handled by one asynchronous task (the consumer *)
(* callback of startIdentityWorker).  JavaScript runs a task without       *)
(* interruption between two awaits, so each action below is the code from  *)
(* one await to the next; the field pc of a task names the await it is     *)
(* suspended at.  Texts are sequences of one-character strings so that     *)
(* trim, toLowerCase, startsWith and includes are computed, not assumed.   *)
(* One gateway (one gateway type, one GATEWAY_NPUB) is modelled, so a row  *)
(* of local_npub_map is keyed by the gateway user alone.                   *)
(*                                                                         *)
(* Failures that are modelled, each a nondeterministic outcome of the step *)
(* that makes the call: createNewUser returning null; the INSERT of        *)
(* saveNwcWallet or saveApiWallet throwing (caught and logged inside the   *)
(* function); validateNwcString answering false; createSubAccount          *)
(* rejecting or answering without a sub-account; notifyBrainOfNewUser and  *)
(* sendPaymentConfirmation rejecting; loadWallet throwing in makePayment;  *)
(* every remote call of the payment paths and of getBalance failing.       *)
(* Taken to succeed: the SELECT of isUserKnown, the UPDATE of              *)
(* rememberGatewayBotId, the UPDATE of ln_address (worker.ts 322), the     *)
(* pending store, and the parsing of a stored connection string.           *)
(***************************************************************************)
EXTENDS Integers, Sequences, FiniteSets, TLC

\* ---------------------------------------------------------------- bounds
\* number of inbound messages delivered in one run (one task each)
MaxTasks == 3
\* number of pending payments the upstream stores in one run
MaxRequests == 1
\* number of process restarts in one run
MaxCrashes == 1
MaxInFlight == 2

Tasks == 1..MaxTasks
Users == {"u1", "u2"}
\* absent values: of a name, of a record, of a text or a bot id
None == "none"
Nil == [nil |-> TRUE]
NoText == <<>>
NoBot == <<>>

\* ---------------------------------------------------------------- strings
\* String.prototype.toLowerCase, character by character
Upper == <<"A", "B", "C", "D", "E", "F", "G", "H", "I", "J", "K", "L", "M",
           "N", "O", "P", "Q", "R", "S", "T", "U", "V", "W", "X", "Y", "Z">>
Lower == <<"a", "b", "c", "d", "e", "f", "g", "h", "i", "j", "k", "l", "m",
           "n", "o", "p", "q", "r", "s", "t", "u", "v", "w", "x", "y", "z">>
LowerChar(c) ==
  IF \E i \in 1..26 : Upper[i] = c
  THEN Lower[CHOOSE i \in 1..26 : Upper[i] = c]
  ELSE c

toLowerCase(s) == [i \in 1..Len(s) |-> LowerChar(s[i])]

RECURSIVE trimStart(_)
trimStart(s) == IF s # <<>> /\ Head(s) = " " THEN trimStart(Tail(s)) ELSE s

RECURSIVE trimEnd(_)
trimEnd(s) ==
  IF s # <<>> /\ s[Len(s)] = " " THEN trimEnd(SubSeq(s, 1, Len(s) - 1)) ELSE s

\* String.prototype.trim
trim(s) == trimEnd(trimStart(s))

startsWith(s, p) == Len(s) >= Len(p) /\ SubSeq(s, 1, Len(p)) = p

includes(s, p) ==
  \E i \in 0..(Len(s) - Len(p)) : SubSeq(s, i + 1, i + Len(p)) = p

S_yes == <<"y", "e", "s">>
S_no == <<"n", "o">>
S_1 == <<"1">>
S_2 == <<"2">>
S_1paren == <<"1", ")">>
S_2paren == <<"2", ")">>
S_walletConnect ==
  <<"w", "a", "l", "l", "e", "t", " ", "c", "o", "n", "n", "e", "c", "t">>
S_nwc == <<"n", "w", "c">>
S_generate == <<"g", "e", "n", "e", "r", "a", "t", "e">>
S_newWallet == <<"n", "e", "w", " ", "w", "a", "l", "l", "e", "t">>
S_nwcScheme ==
  <<"n", "o", "s", "t", "r", "+", "w", "a", "l", "l", "e", "t",
    "c", "o", "n", "n", "e", "c", "t", ":", "/", "/">>

\* worker.ts looksLikeNwcString: /^nostr\+walletconnect:\/\//i on input.trim()
looksLikeNwcString(input) == startsWith(toLowerCase(trim(input)), S_nwcScheme)

\* a parser that misses the bare digit 1
parseWalletChoiceNoDigit1(input) ==
  LET normalized == toLowerCase(trim(input)) IN
  IF normalized = <<>> THEN None
  ELSE IF startsWith(normalized, S_1paren)
          \/ includes(normalized, S_walletConnect) \/ includes(normalized, S_nwc)
       THEN "1"
  ELSE IF normalized = S_2 \/ startsWith(normalized, S_2paren)
          \/ includes(normalized, S_generate) \/ includes(normalized, S_newWallet)
       THEN "2"
  ELSE None

\* worker.ts parseWalletChoice: "1", "2" or None (null)
parseWalletChoice(input) ==
  LET normalized == toLowerCase(trim(input)) IN
  IF normalized = <<>> THEN None
  ELSE IF normalized = S_1 \/ startsWith(normalized, S_1paren)
          \/ includes(normalized, S_walletConnect) \/ includes(normalized, S_nwc)
       THEN "1"
  ELSE IF normalized = S_2 \/ startsWith(normalized, S_2paren)
          \/ includes(normalized, S_generate) \/ includes(normalized, S_newWallet)
       THEN "2"
  ELSE None

\* a worker that takes every non-blank text for an approval
isYesAnyText(messageText) == messageText # NoText

\* worker.ts line 360: messageText.toLowerCase() === 'yes'
isYes(messageText) == toLowerCase(messageText) = S_yes

\* The inbound texts of the model.
T_blank == <<" ">>
T_YesPadded == <<" ", "Y", "e", "s", " ">>
T_2 == <<"2", " ">>
T_No == <<"N", "o">>
T_hi == <<"h", "i">>
T_nwcUri == <<" ">> \o S_nwcScheme \o <<"k">>

Texts == {T_blank, T_YesPadded, S_1, T_2, T_No, T_hi, T_nwcUri}



\* ---------------------------------------------------------------- JSON values
\* A JSON-like value is a record tagged by t; an object is a sequence of
\* <<key, value>> pairs in field order, a string a sequence of characters.
JUndef == [t |-> "undefined"]
JNull == [t |-> "null"]
JBool(b) == [t |-> "bool", v |-> b]
JNum(n) == [t |-> "num", v |-> n]
JStr(s) == [t |-> "str", v |-> s]
JObj(pairs) == [t |-> "obj", v |-> pairs]
JArr(items) == [t |-> "arr", v |-> items]

\* JavaScript's !value
Falsy(x) ==
  \/ x.t \in {"undefined", "null"}
  \/ (x.t = "bool" /\ ~x.v)
  \/ (x.t = "num" /\ x.v = 0)
  \/ (x.t = "str" /\ x.v = <<>>)

\* typeof value === 'object' for a value that is not null
IsObject(x) == x.t \in {"obj", "arr"}

\* key in record
Has(x, key) == x.t = "obj" /\ \E i \in 1..Len(x.v) : x.v[i][1] = key

\* record[key]
Get(x, key) ==
  IF Has(x, key) THEN x.v[CHOOSE i \in 1..Len(x.v) : x.v[i][1] = key][2] ELSE JUndef

\* Object.values(record)
Values(x) == IF x.t = "obj" THEN [i \in 1..Len(x.v) |-> x.v[i][2]] ELSE x.v

\* index of the first element of seq passing Test, 0 when there is none
FirstIndex(seq, Test(_)) ==
  IF \E i \in 1..Len(seq) : Test(seq[i])
  THEN CHOOSE i \in 1..Len(seq) : Test(seq[i]) /\ \A j \in 1..(i - 1) : ~Test(seq[j])
  ELSE 0

\* /^[0-9a-f]+$/i
IsHex(s) == s # <<>> /\ \A i \in 1..Len(s) : LowerChar(s[i]) \in
  {"0", "1", "2", "3", "4", "5", "6", "7", "8", "9", "a", "b", "c", "d", "e", "f"}

Digits == <<"0", "1", "2", "3", "4", "5", "6", "7", "8", "9">>

RECURSIVE DigitsValue(_)
DigitsValue(s) ==
  IF s = <<>> THEN 0
  ELSE 10 * DigitsValue(SubSeq(s, 1, Len(s) - 1)) + (CHOOSE d \in 1..10 : Digits[d] = s[Len(s)]) - 1

\* Number(string) on unsigned decimal integers: blank is 0, anything that is
\* not a run of digits is NaN (JUndef here)
ToNumber(s) ==
  LET trimmed == trim(s) IN
  IF trimmed = <<>> THEN JNum(0)
  ELSE IF \A i \in 1..Len(trimmed) : (\E d \in 1..10 : Digits[d] = trimmed[i]) THEN JNum(DigitsValue(trimmed))
  ELSE JUndef

\* ---------------------------------------------------------------- response normalizer
PreimageKeys == <<"preimage", "paymentPreimage", "preImage">>

RECURSIVE findPreimage(_)
RECURSIVE findPreimageIn(_, _)
\* wallet_manager.ts findPreimage
findPreimage(value) ==
  IF Falsy(value) THEN JUndef
  ELSE IF value.t = "str" /\ Len(value.v) = 64 /\ IsHex(value.v) THEN value
  ELSE IF ~IsObject(value) THEN JUndef
  ELSE LET k == FirstIndex(PreimageKeys, LAMBDA key : Get(value, key).t = "str") IN
       IF k # 0 THEN Get(value, PreimageKeys[k])
       ELSE findPreimageIn(Values(value), 1)

\* the loop over Object.values(record) of findPreimage
findPreimageIn(values, i) ==
  IF i > Len(values) THEN JUndef
  ELSE LET found == findPreimage(values[i]) IN
       IF ~Falsy(found) THEN found ELSE findPreimageIn(values, i + 1)

TrueWords == {<<"o", "k">>, <<"s", "u", "c", "c", "e", "s", "s">>,
              <<"p", "a", "i", "d">>, <<"s", "e", "t", "t", "l", "e", "d">>,
              <<"c", "o", "m", "p", "l", "e", "t", "e", "d">>}
FalseWords == {<<"e", "r", "r", "o", "r">>, <<"f", "a", "i", "l", "e", "d">>,
               <<"r", "e", "j", "e", "c", "t", "e", "d">>}

RECURSIVE findSuccessFlag(_)
RECURSIVE findSuccessFlagIn(_, _)
\* wallet_manager.ts findSuccessFlag: JBool(..) or JUndef
findSuccessFlag(value) ==
  IF Falsy(value) THEN JUndef
  ELSE IF value.t = "bool" THEN value
  ELSE IF value.t = "str" /\ toLowerCase(value.v) \in TrueWords THEN JBool(TRUE)
  ELSE IF value.t = "str" /\ toLowerCase(value.v) \in FalseWords THEN JBool(FALSE)
  ELSE IF ~IsObject(value) THEN JUndef
  ELSE IF Get(value, "success").t = "bool" THEN Get(value, "success")
  ELSE IF Get(value, "status").t = "str" THEN findSuccessFlag(Get(value, "status"))
  ELSE IF Get(value, "state").t = "str" THEN findSuccessFlag(Get(value, "state"))
  ELSE findSuccessFlagIn(Values(value), 1)

findSuccessFlagIn(values, i) ==
  IF i > Len(values) THEN JUndef
  ELSE LET found == findSuccessFlag(values[i]) IN
       IF found # JUndef THEN found ELSE findSuccessFlagIn(values, i + 1)

RECURSIVE hasPayResult(_)
\* wallet_manager.ts hasPayResult
hasPayResult(value) ==
  IF Falsy(value) \/ ~IsObject(value) THEN FALSE
  ELSE IF ~Falsy(Get(value, "payResult")) THEN TRUE
  ELSE IF IsObject(Get(value, "result")) /\ ~Falsy(Get(Get(value, "result"), "payResult"))
       THEN TRUE
  ELSE \E i \in 1..Len(Values(value)) : hasPayResult(Values(value)[i])

MsatsDirectKeys == <<"balanceMsats", "balance_msats", "msats", "amountMsats", "balance">>
PendingDirectKeys == <<"pendingMsats", "pending_msats", "pendingAmountMsats", "pending">>
NestedKeys == <<"data", "context", "result">>

RECURSIVE extractAmount(_, _, _)
RECURSIVE extractAmountKeys(_, _, _, _, _)
RECURSIVE extractAmountEntries(_, _, _, _)
\* wallet_manager.ts extractMsats and extractPendingMsats, which differ in
\* their direct keys and in the array field: JNum(..) or JNull
extractAmount(value, directKeys, arrayKey) ==
  IF value.t \in {"null", "undefined"} THEN JNull
  ELSE IF value.t = "num" THEN value
  ELSE IF value.t = "str" /\ ToNumber(value.v) # JUndef THEN ToNumber(value.v)
  ELSE IF ~IsObject(value) THEN JNull
  ELSE LET direct == extractAmountKeys(value, directKeys, 1, directKeys, arrayKey) IN
       IF direct # JNull THEN direct
       ELSE LET nested == extractAmountKeys(value, NestedKeys, 1, directKeys, arrayKey) IN
            IF nested # JNull THEN nested
            ELSE IF Get(value, arrayKey).t = "arr"
                 THEN extractAmountEntries(Get(value, arrayKey).v, 1, directKeys, arrayKey)
            ELSE JNull

\* for (const key of keys) if (key in record) ...
extractAmountKeys(record, keys, i, directKeys, arrayKey) ==
  IF i > Len(keys) THEN JNull
  ELSE LET msats == IF Has(record, keys[i])
                    THEN extractAmount(Get(record, keys[i]), directKeys, arrayKey)
                    ELSE JNull IN
       IF msats # JNull THEN msats
       ELSE extractAmountKeys(record, keys, i + 1, directKeys, arrayKey)

\* for (const entry of record.balances) ...
extractAmountEntries(entries, i, directKeys, arrayKey) ==
  IF i > Len(entries) THEN JNull
  ELSE LET msats == extractAmount(entries[i], directKeys, arrayKey) IN
       IF msats # JNull THEN msats
       ELSE extractAmountEntries(entries, i + 1, directKeys, arrayKey)

extractMsats(value) == extractAmount(value, MsatsDirectKeys, "balances")
extractPendingMsats(value) == extractAmount(value, PendingDirectKeys, "pending")

\* wallet_manager.ts interpretNwcliPaymentResponse
interpretNwcliPaymentResponse(response) ==
  LET preimage == findPreimage(response)
      flag == findSuccessFlag(response)
      msats == extractMsats(response)
      success ==
        IF flag # JUndef THEN flag.v
        ELSE IF hasPayResult(response) THEN TRUE
        ELSE IF msats # JNull /\ msats.v >= 0 THEN TRUE
        ELSE ~Falsy(preimage) IN
  [success |-> success, preimage |-> preimage]

\* the keys with message looked at before error
ErrorKeysMessageFirst == <<"message", "error", "reason", "detail", "description">>

ErrorKeys == <<"error", "message", "reason", "detail", "description">>
S_error == <<"e", "r", "r", "o", "r">>

RECURSIVE extractErrorMessage(_)
RECURSIVE extractErrorMessageIn(_, _)
\* wallet_manager.ts extractErrorMessage: JStr(..) or JNull
extractErrorMessage(response) ==
  IF Falsy(response) THEN JNull
  ELSE IF response.t = "str"
       THEN (IF trim(response.v) # <<>> THEN JStr(trim(response.v)) ELSE JNull)
  ELSE IF ~IsObject(response) THEN JNull
  ELSE LET k == FirstIndex(ErrorKeys,
                  LAMBDA key : Get(response, key).t = "str"
                               /\ trim(Get(response, key).v) # <<>>) IN
       IF k # 0 THEN Get(response, ErrorKeys[k])
       ELSE IF Get(response, "status").t = "str"
               /\ toLowerCase(Get(response, "status").v) = S_error
            THEN JStr(<<"Remote wallet API reported an error status.">>)
       ELSE extractErrorMessageIn(Values(response), 1)

\* the loop over Object.values(record): typeof value === 'object' holds of
\* objects, arrays and null
extractErrorMessageIn(values, i) ==
  IF i > Len(values) THEN JNull
  ELSE LET nested == IF IsObject(values[i]) \/ values[i].t = "null"
                     THEN extractErrorMessage(values[i]) ELSE JNull IN
       IF ~Falsy(nested) THEN nested ELSE extractErrorMessageIn(values, i + 1)

\* An Error as request() raises it: a message and, for a non-2xx answer,
\* the parsed body as data (JUndef when there is none)
JsError(message, data) == [message |-> message, data |-> data]

\* wallet_manager.ts extractMessageFromError for an Error instance
extractMessageFromError(error) ==
  LET dataMessage == extractErrorMessage(error.data) IN
  IF ~Falsy(dataMessage) THEN dataMessage ELSE JStr(error.message)

\* a conversion that rounds to the nearest unit
msatsToSatsRounded(msats) == (msats + 500) \div 1000

\* wallet_manager.ts msatsToSats: Math.floor(msats / 1000)
msatsToSats(msats) == msats \div 1000

\* wallet_manager.ts buildBalanceInsight: the parts of the summary in order,
\* <<>> when there is none (null)
buildBalanceInsight(balanceMsats, pendingMsats, requestMsats) ==
  LET available ==
        IF balanceMsats # JNull
        THEN LET rest == balanceMsats.v
                           - (IF pendingMsats # JNull THEN pendingMsats.v ELSE 0) IN
             <<<<"available", msatsToSats(IF rest >= 0 THEN rest ELSE 0)>>>>
        ELSE <<>>
      balance == IF balanceMsats # JNull
                 THEN <<<<"balance", msatsToSats(balanceMsats.v)>>>> ELSE <<>>
      pending == IF pendingMsats # JNull
                 THEN <<<<"pending", msatsToSats(pendingMsats.v)>>>> ELSE <<>>
      request == IF requestMsats # JNull
                 THEN <<<<"request", msatsToSats(requestMsats.v)>>>> ELSE <<>> IN
  available \o balance \o pending \o request


\* ---------------------------------------------------------------- data
\* SQL NULL in a column (column values are tuples), and an absent row
NULL == <<"NULL">>
NoRow == [norow |-> TRUE]

\* Identities (npubs) are numbers: the users known before the run hold 1 and
\* 2, SimpleSigner's fresh keys are MaxPreKey + 1, MaxPreKey + 2, ...
PreKey(u) == IF u = "u1" THEN 1 ELSE 2
MaxPreKey == Cardinality(Users)
Npubs == 1..(MaxPreKey + MaxTasks)

BotIds == {<<"b1">>}

\* encryption.ts encrypt / decrypt: the ciphertext is never the plaintext
encrypt(plain) == <<"enc", plain>>
decrypt(cipher) == cipher[2]

\* SHARED_NWC_STRING, when configured
SharedNwcUri == S_nwcScheme \o <<"s">>

\* user_wallets row written by saveNwcWallet (every api_* column NULL)
NwcRow(encrypted, lnAddress) ==
  [wallet_type |-> "nwc", encrypted_nwc_string |-> encrypted,
   ln_address |-> lnAddress, api_identifier |-> NULL,
   api_subaccount_id |-> NULL, api_label |-> NULL]

\* user_wallets row written by saveApiWallet
ApiRow(identifier, subAccountId, label) ==
  [wallet_type |-> "api", encrypted_nwc_string |-> NULL,
   ln_address |-> NULL, api_identifier |-> identifier,
   api_subaccount_id |-> subAccountId, api_label |-> label]

\* local_npub_map row
MapRow(npub, brain, idlink, bot) ==
  [user_npub |-> npub, beacon_brain_npub |-> brain,
   beacon_id_npub |-> idlink, gateway_bot_id |-> bot]

\* worker.ts generateSubAccountLabel: a label fixed by the gateway user (the
\* sanitising and the 32-character cut are not modelled)
generateSubAccountLabel(gatewayUser, npub) == <<"beacon-web-", gatewayUser>>

\* the sub-account the backend returns for a label
SubAccount(label) ==
  [id |-> <<"id", label>>, identifier |-> <<"acct", label>>, label |-> label]

\* Invoices carry their amount in millisatoshi (light-bolt11-decoder's
\* "amount" section); NoAmount is an invoice without one.
NoAmount == -1
Invoice(amountMsats) == <<"lnbc", amountMsats>>
InvoiceAmount(invoice) == invoice[2]

\* wallet_manager.ts decodeInvoiceMsats: JNum(..) or JNull
decodeInvoiceMsats(invoice) ==
  IF InvoiceAmount(invoice) = NoAmount THEN JNull ELSE JNum(InvoiceAmount(invoice))

\* The payment requests the upstream stores (PendingPayment of pending_store);
\* an amount of 0 is a request without an amount
PaymentShapes ==
  { [type |-> "ln_invoice", lnInvoice |-> Invoice(5000), lnAddress |-> NULL, amount |-> 0],
    [type |-> "ln_address", lnInvoice |-> NULL, lnAddress |-> <<"bob@ln.example">>, amount |-> 5],
    [type |-> "ln_address", lnInvoice |-> NULL, lnAddress |-> <<"bob@ln.example">>, amount |-> 0] }

Payment(id, npub, shape) ==
  [id |-> id, npub |-> npub, type |-> shape.type, lnInvoice |-> shape.lnInvoice,
   lnAddress |-> shape.lnAddress, amount |-> shape.amount]

\* PaymentResult of wallet_manager.ts; error carries the message and the
\* balance summary appended to it (<<>> when none)
Paid(receipt) == [success |-> TRUE, receipt |-> receipt]
\* an outcome that reports every failure as a success
FailedAsPaid(message, insight) == [success |-> TRUE, receipt |-> message]

Failed(message, insight) ==
  [success |-> FALSE, error |-> [message |-> message, insight |-> insight]]
Text(s) == JStr(<<s>>)
\* makePayment 401, 471: error?.message || fallback
OrElse(message, fallback) == IF Falsy(message) THEN Text(fallback) ELSE message

\* What the backends answer in this model
Hex64 == [i \in 1..64 |-> IF i % 2 = 1 THEN "a" ELSE "7"]
R_paid == JObj(<< <<"status", JStr(<<"p", "a", "i", "d">>)>>, <<"preimage", JStr(Hex64)>> >>)
R_error ==
  JObj(<< <<"status", JStr(S_error)>>,
          <<"reason", JStr(<<"n", "o", " ", "f", "u", "n", "d", "s">>)>> >>)
\* beside these two: a paid answer that names the payment hash and no
\* preimage, and an answer whose status is no verdict and whose state is a
\* failure, with a preimage
PayResponses ==
  {R_paid, R_error,
   JObj(<< <<"status", JStr(<<"p", "a", "i", "d">>)>>, <<"payment_hash", JStr(Hex64)>> >>),
   JObj(<< <<"status", JStr(<<"p", "e", "n", "d", "i", "n", "g">>)>>,
           <<"state", JStr(<<"f", "a", "i", "l", "e", "d">>)>>,
           <<"preimage", JStr(Hex64)>> >>)}
\* what a failing payment call throws: a non-2xx answer with its body, a
\* network failure, an Error without message
PayErrors ==
  {JsError(<<"[nwcli] 500">>, R_error), JsError(<<"fetch failed">>, JUndef),
   JsError(<<>>, JUndef)}
\* a balance answer with both amounts, and one that names no pending amount
BalanceResponses ==
  {JObj(<< <<"balanceMsats", JNum(7000)>>, <<"pendingMsats", JNum(2500)>> >>),
   JObj(<< <<"balance", JNum(1999)>> >>)}

\* ---------------------------------------------------------------- state
VARIABLES
  localNpubMap,     \* table local_npub_map: gateway user -> NoRow or a MapRow
  userWallets,      \* table user_wallets: npub -> NoRow or a row
  onboardingState,  \* worker.ts onboardingState: gateway user -> Nil or [step, npub]
  pendingStore,     \* pending_store: gateway user -> Nil or a Payment
  sharedNwc,        \* SHARED_NWC_STRING: NoText or a connection string
  nextKey,          \* the next key SimpleSigner generates
  nextRequest,      \* the next request id the upstream uses
  crashes,          \* restarts so far
  interrupted,      \* request ids whose makePayment a restart cut off
  task,             \* task[t]: the consumer callback handling message t
  identityOut,      \* identityOut[t]: messages task t enqueued with enqueueIdentityOut
  cvmLog,           \* cvmLog[t]: notifications task t sent to the Brain
  walletCalls,      \* walletCalls[t]: remote wallet calls task t issued, with their results
  consoleError,     \* consoleError[t]: what task t wrote with console.error
  makePaymentCalls  \* makePaymentCalls[id]: how often request id was handed to makePayment

vars == <<localNpubMap, userWallets, onboardingState, pendingStore, sharedNwc,
          nextKey, nextRequest, crashes, interrupted, task, identityOut, cvmLog,
          walletCalls, consoleError, makePaymentCalls>>

IdleTask ==
  [pc |-> "idle", from |-> None, text |-> NoText, botid |-> NoBot, caught |-> FALSE,
   st |-> Nil, pay |-> Nil, wallet |-> Nil, snap |-> Nil, res |-> Nil]

\* What the tables hold for a user before the run: nothing, or a mapping
\* with a protocol wallet, with an HTTP wallet, or with no wallet row.
InitMapRow(u, kind) ==
  IF kind = "unknown" THEN NoRow ELSE MapRow(PreKey(u), <<"brain">>, NULL, <<"b0">>)

InitWalletRow(u, kind) ==
  CASE kind = "nwc" -> NwcRow(encrypt(trim(T_nwcUri)), NULL)
    [] kind = "api" ->
         LET sub == SubAccount(generateSubAccountLabel(u, PreKey(u))) IN
         ApiRow(sub.identifier, sub.id, sub.label)
    [] OTHER -> NoRow

InitWith(kind, shared) ==
  /\ localNpubMap = [u \in Users |-> InitMapRow(u, kind[u])]
  /\ userWallets =
       [n \in Npubs |->
          IF \E u \in Users : PreKey(u) = n
          THEN LET u == CHOOSE v \in Users : PreKey(v) = n IN InitWalletRow(u, kind[u])
          ELSE NoRow]
  /\ onboardingState = [u \in Users |-> Nil]
  /\ pendingStore = [u \in Users |-> Nil]
  /\ sharedNwc = shared
  /\ nextKey = MaxPreKey + 1
  /\ nextRequest = 1
  /\ crashes = 0
  /\ interrupted = {}
  /\ task = [t \in Tasks |-> IdleTask]
  /\ identityOut = [t \in Tasks |-> <<>>]
  /\ cvmLog = [t \in Tasks |-> <<>>]
  /\ walletCalls = [t \in Tasks |-> <<>>]
  /\ consoleError = [t \in Tasks |-> <<>>]
  /\ makePaymentCalls = [id \in 1..MaxRequests |-> 0]

\* ---------------------------------------------------------------- helpers
\* npubMap rememberGatewayBotId: UPDATE ... SET gateway_bot_id = ? on the
\* user's row when the stored value is NULL or differs
rememberGatewayBotId(map, gatewayUser, botId) ==
  IF botId = NoBot \/ map[gatewayUser] = NoRow
  THEN map
  ELSE [map EXCEPT ![gatewayUser].gateway_bot_id = botId]

\* an upsert whose write is lost
upsertLocalNpubMapLost(map, gatewayUser, userNpub, options) == map

\* an upsert that on conflict writes every new value, absent ones included
upsertLocalNpubMapOverwrites(map, gatewayUser, userNpub, options) ==
  [map EXCEPT ![gatewayUser] =
     MapRow(userNpub, options.beaconBrainNpub, options.beaconIdNpub, options.gatewayBotId)]

\* npubMap upsertLocalNpubMap; options holds NULL for a value that is null
\* or not passed. INSERT stores the values as given; ON CONFLICT replaces
\* user_npub, keeps a link whose new value is NULL (COALESCE), and keeps the
\* bot id when the new one is NULL or blank, storing TRIM of it otherwise
upsertLocalNpubMap(map, gatewayUser, userNpub, options) ==
  LET bot == IF options.gatewayBotId = NULL THEN NULL
             ELSE IF trim(options.gatewayBotId) = <<>> THEN NULL
             ELSE trim(options.gatewayBotId) IN
  IF map[gatewayUser] = NoRow
  THEN [map EXCEPT ![gatewayUser] =
          MapRow(userNpub, options.beaconBrainNpub, options.beaconIdNpub,
                 options.gatewayBotId)]
  ELSE [map EXCEPT ![gatewayUser] =
          MapRow(userNpub,
                 IF options.beaconBrainNpub # NULL THEN options.beaconBrainNpub
                 ELSE @.beacon_brain_npub,
                 IF options.beaconIdNpub # NULL THEN options.beaconIdNpub
                 ELSE @.beacon_id_npub,
                 IF bot # NULL THEN bot ELSE @.gateway_bot_id)]

\* worker.ts isUserKnown: a row exists (the SELECT itself is taken to succeed)
isUserKnown(map, gatewayUser) == map[gatewayUser] # NoRow

\* worker.ts ensureBotId: the bot id of the message, else the stored one
ensureBotId(map, gatewayUser, botId) ==
  IF botId # NoBot THEN botId
  ELSE IF map[gatewayUser] # NoRow /\ map[gatewayUser].gateway_bot_id # NULL
       THEN map[gatewayUser].gateway_bot_id
  ELSE NoBot

\* an upsert that on conflict sets only the kind and the credential
saveNwcWalletKeepsApi(wallets, npub, nwcString, dbOk) ==
  IF ~dbOk THEN wallets
  ELSE IF wallets[npub] = NoRow
       THEN [wallets EXCEPT ![npub] = NwcRow(encrypt(nwcString), NULL)]
  ELSE [wallets EXCEPT ![npub].wallet_type = "nwc",
                       ![npub].encrypted_nwc_string = encrypt(nwcString)]

\* worker.ts saveNwcWallet: the upsert, or nothing when the database fails
\* (the error is caught and logged inside saveNwcWallet)
saveNwcWallet(wallets, npub, nwcString, dbOk) ==
  IF dbOk THEN [wallets EXCEPT ![npub] = NwcRow(encrypt(nwcString), NULL)]
  ELSE wallets

\* a save that labels the generated wallet as a protocol wallet
saveApiWalletAsNwc(wallets, npub, sub, dbOk) ==
  IF dbOk
  THEN [wallets EXCEPT ![npub] =
          [ApiRow(sub.identifier, sub.id, sub.label) EXCEPT !.wallet_type = "nwc"]]
  ELSE wallets

\* worker.ts saveApiWallet: likewise
saveApiWallet(wallets, npub, sub, dbOk) ==
  IF dbOk THEN [wallets EXCEPT ![npub] = ApiRow(sub.identifier, sub.id, sub.label)]
  ELSE wallets

\* a comparison with 'no' that minds the letter case
lnAddressOfExactCase(normalizedInput) ==
  IF normalizedInput = S_no THEN NULL ELSE normalizedInput

\* worker.ts line 321: 'no' in any case is null, anything else is kept
lnAddressOf(normalizedInput) ==
  IF toLowerCase(normalizedInput) = S_no THEN NULL ELSE normalizedInput

\* worker.ts line 322: UPDATE user_wallets SET ln_address = ? WHERE user_npub = ?
updateLnAddress(wallets, npub, lnAddress) ==
  IF wallets[npub] = NoRow THEN wallets
  ELSE [wallets EXCEPT ![npub].ln_address = lnAddress]

\* a resolver that prefers the shared credential to the row of the user
loadWalletSharedFirst(wallets, shared, npub) ==
  IF trim(shared) # NoText
  THEN [type |-> "nwc", npub |-> npub, nwcUri |-> trim(shared), lnAddress |-> NULL]
  ELSE Nil

\* wallet_manager.ts loadWallet: Nil (null) or the WalletDetails
loadWallet(wallets, shared, npub) ==
  LET row == wallets[npub] IN
  IF row = NoRow
  THEN (IF trim(shared) # NoText
        THEN [type |-> "nwc", npub |-> npub, nwcUri |-> trim(shared), lnAddress |-> NULL]
        ELSE Nil)
  ELSE IF row.wallet_type = "nwc"
       THEN (IF row.encrypted_nwc_string = NULL THEN Nil
             ELSE [type |-> "nwc", npub |-> npub,
                   nwcUri |-> decrypt(row.encrypted_nwc_string),
                   lnAddress |-> row.ln_address])
  ELSE IF row.wallet_type = "api"
       THEN (IF row.api_identifier = NULL THEN Nil
             ELSE [type |-> "api", npub |-> npub, lnAddress |-> row.ln_address,
                   apiIdentifier |-> row.api_identifier,
                   apiSubAccountId |-> row.api_subaccount_id,
                   apiLabel |-> row.api_label])
  ELSE Nil

Step(step, npub) == [step |-> step, npub |-> npub]
Msg(to, body) == [to |-> to, body |-> body]
Call(name) == [call |-> name, result |-> "pending"]
NewUserNote(gatewayUser, npub) ==
  [kind |-> "new_user", gatewayId |-> gatewayUser, npub |-> npub, result |-> "pending"]
PaymentNote(tag, detail, payment) ==
  [kind |-> "payment", tag |-> tag, detail |-> detail, payment |-> payment,
   result |-> "pending"]

\* console.error(context, extra): the entry it writes; extra is the text
\* logged beside the context, NoText when the call logs none
Logged(context, extra) == [context |-> context, extra |-> extra]

\* the answer to the call or notification a task is suspended on
Resolve(log, result) == [log EXCEPT ![Len(log)].result = result]
Outcome(ok) == IF ok THEN "ok" ELSE "failed"

\* no message sits between the queue and its callback, and no callback has
\* just returned
Quiet == \A t \in Tasks : task[t].pc \notin {"received", "done"}

\* the callback of message t is suspended on an await
InFlight(t) == task[t].pc \notin {"idle", "received", "done", "retired"}

\* a router that looks at the mapping table only
ToOnboardingUnknownOnly(map, u) == ~isUserKnown(map, u)

\* worker.ts line 354: the message goes to handleOnboarding
ToOnboarding(map, u) ==
  ~isUserKnown(map, u) \/ onboardingState[u] # Nil

\* what one step adds to the logs of task t: messages and console errors
\* are appended, cvm and calls are the new logs
Logs(t, out, cvm, calls, errors) ==
  /\ identityOut' = [identityOut EXCEPT ![t] = @ \o out]
  /\ cvmLog' = [cvmLog EXCEPT ![t] = cvm]
  /\ walletCalls' = [walletCalls EXCEPT ![t] = calls]
  /\ consoleError' = [consoleError EXCEPT ![t] = @ \o errors]


\* the bodies of the messages the worker sends
PromptChoice ==
  "Welcome to Beacon!\n\nI am the Beacon ID. I help you manage your wallet and approvals. The Beacon Brain will answer your questions and help you work with your money and get access to any information you need.\n\nWould you like to:\n(1) BYO Wallet w. Nostr Wallet Connect\n(2) Generate a new wallet?"
CreateError == "Sorry, there was an error creating your account. Please try again later."
AskNwc ==
  "Alright, let's set up your Bitcoin wallet. Please respond with a nostr wallet connect string and I'll do the rest."
AskLnAddress ==
  "That all worked, please can you tell me your lightning address for this wallet? Or if it's not available just say No"
NwcInvalid ==
  "Hey that didn't work, please ensure it's a valid wallet connect string or reply 2 to generate a new wallet."
StillWaiting ==
  "I'm still waiting on a valid wallet connect string. You can also reply 2 to generate a new wallet."
GenerateFailed == "Sorry, I couldn't create a wallet right now. Let's try that again."
Completion ==
  "We've successfully created you a Lightning wallet and onboarded you to Bitcoin.\n\nThe Beacon Brain will be in touch from another number. You can use the Brain to get access to any information and to ask for payments, invoices, etc from your wallet.\n\nNo money can be spent by the Brain unless you approve it here first.\n\nWe hope you have a great day!"
CriticalError == "Sorry, a critical error occurred during onboarding. Please start over."
\* the fixed head of the two payment messages; the receipt and balance, or
\* the error, travel beside it in the message record
Confirmed == "Payment confirmed!"
PaymentFailed == "Payment failed: "

db == <<localNpubMap, userWallets>>
environment == <<sharedNwc, nextKey, nextRequest, crashes, interrupted>>
NoLogs == <<identityOut, cvmLog, walletCalls, consoleError>>

\* ---------------------------------------------------------------- the pump
\* queues consumeIdentityBeacon hands message t to the callback of
\* startIdentityWorker
Receive(t, gatewayUser, text, botId) ==
  /\ Quiet
  /\ task[t].pc = "idle"
  /\ IF t = 1 THEN TRUE ELSE task[t - 1].pc # "idle"
  /\ Cardinality({r \in Tasks : InFlight(r)}) < MaxInFlight
  /\ task' = [task EXCEPT ![t] =
       [IdleTask EXCEPT !.pc = "received", !.from = gatewayUser, !.text = text,
                        !.botid = botId]]
  /\ UNCHANGED <<db, onboardingState, pendingStore, environment, NoLogs, makePaymentCalls>>

\* worker.ts 340-341: blank text
HandleEmpty(t) ==
  /\ task[t].pc = "received"
  /\ trim(task[t].text) = NoText
  /\ task' = [task EXCEPT ![t].pc = "done"]
  /\ UNCHANGED <<db, onboardingState, pendingStore, environment, NoLogs, makePaymentCalls>>

\* the mapping table after worker.ts 343-351
Remembered(t) == rememberGatewayBotId(localNpubMap, task[t].from, task[t].botid)

\* worker.ts 354-357 with handleOnboarding 168-181, 260-261: the message is
\* routed to onboarding; state is what onboardingState.get returned
Onboarding(t) ==
  /\ task[t].pc = "received"
  /\ trim(task[t].text) # NoText
  /\ ToOnboarding(Remembered(t), task[t].from)

\* handleOnboarding 263-264 up to the await in createNewUser (line 67)
HandleNewUser(t) ==
    LET u == task[t].from IN
    /\ Onboarding(t)
    /\ onboardingState[u] = Nil
    /\ localNpubMap' = Remembered(t)
    /\ task' = [task EXCEPT ![t].pc = "createNewUser",
                            ![t].botid = ensureBotId(Remembered(t), u, task[t].botid)]
    /\ Logs(t, <<>>, cvmLog[t], walletCalls[t], <<>>)
    /\ UNCHANGED <<userWallets, onboardingState, pendingStore, environment, makePaymentCalls>>

\* createNewUser 67-82 and handleOnboarding 265-273
NewUserCreated(t) ==
  \E ok \in BOOLEAN :
    LET u == task[t].from IN
    /\ Quiet
    /\ task[t].pc = "createNewUser"
    /\ task' = [task EXCEPT ![t].pc = "done"]
    /\ IF ok
       THEN /\ localNpubMap' =
                 upsertLocalNpubMap(localNpubMap, u, nextKey,
                   [beaconBrainNpub |-> NULL, beaconIdNpub |-> NULL,
                    gatewayBotId |-> IF task[t].botid = NoBot THEN NULL
                                     ELSE task[t].botid])
            /\ nextKey' = nextKey + 1
            /\ onboardingState' =
                 [onboardingState EXCEPT ![u] = Step("awaiting_choice", nextKey)]
            /\ Logs(t, <<Msg(u, PromptChoice)>>, cvmLog[t], walletCalls[t], <<>>)
       ELSE /\ Logs(t, <<Msg(u, CreateError)>>, cvmLog[t], walletCalls[t],
                    <<Logged("createNewUser DB error", NoText)>>)
            /\ UNCHANGED <<localNpubMap, nextKey, onboardingState>>
    /\ UNCHANGED <<userWallets, pendingStore, sharedNwc, nextRequest, crashes, interrupted,
                   makePaymentCalls>>

\* handleOnboarding 276-279 and 301-304, handleNwcProvided up to the await
\* of the probe in validateNwcString (line 620)
HandleNwcString(t) ==
    LET u == task[t].from IN
    /\ Onboarding(t)
    /\ onboardingState[u] # Nil
    /\ onboardingState[u].step \in {"awaiting_choice", "awaiting_nwc"}
    /\ looksLikeNwcString(trim(task[t].text))
    /\ localNpubMap' = Remembered(t)
    /\ task' = [task EXCEPT ![t].pc = "validateNwcString", ![t].st = onboardingState[u]]
    /\ Logs(t, <<>>, cvmLog[t], Append(walletCalls[t], Call("validateNwcString")),
            <<>>)
    /\ UNCHANGED <<userWallets, onboardingState, pendingStore, environment, makePaymentCalls>>

\* validateNwcString 621-626 and handleNwcProvided 239-257
NwcValidated(t) ==
  \E isValid \in BOOLEAN, dbOk \in BOOLEAN :
    LET u == task[t].from
        state == task[t].st
        nwc == trim(task[t].text) IN
    /\ Quiet
    /\ task[t].pc = "validateNwcString"
    /\ task' = [task EXCEPT ![t].pc = "done"]
    /\ IF isValid
       THEN /\ userWallets' = saveNwcWallet(userWallets, state.npub, nwc, dbOk)
            /\ onboardingState' =
                 [onboardingState EXCEPT ![u] = Step("awaiting_ln_address", state.npub)]
            /\ Logs(t, <<Msg(u, AskLnAddress)>>, cvmLog[t],
                    Resolve(walletCalls[t], "ok"),
                    IF dbOk THEN <<>> ELSE <<Logged("saveNwcWallet DB error", NoText)>>)
       ELSE /\ dbOk
            /\ Logs(t, <<Msg(u, NwcInvalid)>>, cvmLog[t],
                    Resolve(walletCalls[t], "failed"),
                    <<Logged("NWC URI validation failed", nwc)>>)
            /\ UNCHANGED <<userWallets, onboardingState>>
    /\ UNCHANGED <<localNpubMap, pendingStore, environment, makePaymentCalls>>

\* handleOnboarding 281-292
HandleChoice1(t) ==
    LET u == task[t].from IN
    /\ Onboarding(t)
    /\ onboardingState[u] # Nil
    /\ onboardingState[u].step = "awaiting_choice"
    /\ ~looksLikeNwcString(trim(task[t].text))
    /\ parseWalletChoice(trim(task[t].text)) = "1"
    /\ localNpubMap' = Remembered(t)
    /\ onboardingState' =
         [onboardingState EXCEPT ![u] = Step("awaiting_nwc", onboardingState[u].npub)]
    /\ task' = [task EXCEPT ![t].pc = "done", ![t].st = onboardingState[u]]
    /\ Logs(t, <<Msg(u, AskNwc)>>, cvmLog[t], walletCalls[t], <<>>)
    /\ UNCHANGED <<userWallets, pendingStore, environment, makePaymentCalls>>

\* handleOnboarding 293-296 and 306-310, handleGenerateWallet up to the
\* await of createSubAccount (line 212)
HandleChoice2(t) ==
    LET u == task[t].from IN
    /\ Onboarding(t)
    /\ onboardingState[u] # Nil
    /\ onboardingState[u].step \in {"awaiting_choice", "awaiting_nwc"}
    /\ ~looksLikeNwcString(trim(task[t].text))
    /\ parseWalletChoice(trim(task[t].text)) = "2"
    /\ localNpubMap' = Remembered(t)
    /\ task' = [task EXCEPT ![t].pc = "createSubAccount", ![t].st = onboardingState[u]]
    /\ Logs(t, <<>>, cvmLog[t], Append(walletCalls[t], Call("createSubAccount")),
            <<>>)
    /\ UNCHANGED <<userWallets, onboardingState, pendingStore, environment, makePaymentCalls>>


\* a catch block that apologises and deletes the state entry
GenerateCaughtResets(t, calls, cvm) ==
  LET u == task[t].from IN
  /\ onboardingState' = [onboardingState EXCEPT ![u] = Nil]
  /\ Logs(t, <<Msg(u, GenerateFailed), Msg(u, PromptChoice)>>, cvm, calls,
          <<Logged("Failed to generate API wallet", NoText)>>)

\* handleGenerateWallet 224-234: the catch block
GenerateCaught(t, calls, cvm) ==
  LET u == task[t].from IN
  /\ onboardingState' =
       [onboardingState EXCEPT ![u] = Step("awaiting_choice", task[t].st.npub)]
  /\ Logs(t, <<Msg(u, GenerateFailed), Msg(u, PromptChoice)>>, cvm, calls,
          <<Logged("Failed to generate API wallet", NoText)>>)

\* handleGenerateWallet 212-223 after createSubAccount settled, and
\* finishOnboarding 184-185 up to the await of notifyBrainOfNewUser;
\* createSubAccount rejects, or its answer lacks the subAccount that line
\* 221 reads: either way the catch block runs
SubAccountCreated(t) ==
  \E ok \in BOOLEAN, dbOk \in BOOLEAN :
    LET u == task[t].from
        state == task[t].st
        subAccount == SubAccount(generateSubAccountLabel(u, state.npub)) IN
    /\ Quiet
    /\ task[t].pc = "createSubAccount"
    /\ IF ok
       THEN /\ userWallets' = saveApiWallet(userWallets, state.npub, subAccount, dbOk)
            /\ onboardingState' = [onboardingState EXCEPT ![u] = Nil]
            /\ task' = [task EXCEPT ![t].pc = "notifyAfterGenerate"]
            /\ Logs(t, <<>>, Append(cvmLog[t], NewUserNote(u, state.npub)),
                    Resolve(walletCalls[t], "ok"),
                    IF dbOk THEN <<>> ELSE <<Logged("saveApiWallet DB error", NoText)>>)
       ELSE /\ dbOk
            /\ GenerateCaught(t, Resolve(walletCalls[t], "failed"), cvmLog[t])
            /\ task' = [task EXCEPT ![t].pc = "done"]
            /\ UNCHANGED userWallets
    /\ UNCHANGED <<localNpubMap, pendingStore, environment, makePaymentCalls>>

\* finishOnboarding 186-205 called from handleGenerateWallet: a rejected
\* notification lands in the catch block of handleGenerateWallet
NotifiedAfterGenerate(t) ==
  \E ok \in BOOLEAN :
    LET u == task[t].from IN
    /\ Quiet
    /\ task[t].pc = "notifyAfterGenerate"
    /\ task' = [task EXCEPT ![t].pc = "done"]
    /\ IF ok
       THEN /\ Logs(t, <<Msg(u, Completion)>>, Resolve(cvmLog[t], "ok"),
                    walletCalls[t], <<>>)
            /\ UNCHANGED onboardingState
       ELSE GenerateCaught(t, walletCalls[t], Resolve(cvmLog[t], "failed"))
    /\ UNCHANGED <<db, pendingStore, environment, makePaymentCalls>>

\* handleOnboarding 281, 297-298: unrecognised input in awaiting_choice
HandleChoiceOther(t) ==
    LET u == task[t].from IN
    /\ Onboarding(t)
    /\ onboardingState[u] # Nil
    /\ onboardingState[u].step = "awaiting_choice"
    /\ ~looksLikeNwcString(trim(task[t].text))
    /\ parseWalletChoice(trim(task[t].text)) = None
    /\ localNpubMap' = Remembered(t)
    /\ task' = [task EXCEPT ![t].pc = "done", ![t].st = onboardingState[u]]
    /\ Logs(t, <<Msg(u, PromptChoice)>>, cvmLog[t], walletCalls[t], <<>>)
    /\ UNCHANGED <<userWallets, onboardingState, pendingStore, environment, makePaymentCalls>>

\* handleOnboarding 306, 311-317: anything else in awaiting_nwc
HandleNwcOther(t) ==
    LET u == task[t].from IN
    /\ Onboarding(t)
    /\ onboardingState[u] # Nil
    /\ onboardingState[u].step = "awaiting_nwc"
    /\ ~looksLikeNwcString(trim(task[t].text))
    /\ parseWalletChoice(trim(task[t].text)) # "2"
    /\ localNpubMap' = Remembered(t)
    /\ task' = [task EXCEPT ![t].pc = "done", ![t].st = onboardingState[u]]
    /\ Logs(t, <<Msg(u, StillWaiting)>>, cvmLog[t], walletCalls[t], <<>>)
    /\ UNCHANGED <<userWallets, onboardingState, pendingStore, environment, makePaymentCalls>>

\* a catch block that logs and tells the user nothing
OnboardingCaughtSilent(t, cvm) ==
  /\ onboardingState' = [onboardingState EXCEPT ![task[t].from] = Nil]
  /\ Logs(t, <<>>, cvm, walletCalls[t], <<Logged("CRITICAL ERROR in handleOnboarding", NoText)>>)

\* handleOnboarding 327-331: the catch block
OnboardingCaught(t, cvm) ==
  LET u == task[t].from IN
  /\ onboardingState' = [onboardingState EXCEPT ![u] = Nil]
  /\ Logs(t, <<Msg(u, CriticalError)>>, cvm, walletCalls[t],
          <<Logged("CRITICAL ERROR in handleOnboarding", NoText)>>)

\* handleOnboarding 320-324 and finishOnboarding 184-185 up to the await of
\* notifyBrainOfNewUser
HandleLnAddress(t) ==
  LET u == task[t].from
      state == onboardingState[u]
      lnAddress == lnAddressOf(trim(task[t].text)) IN
  /\ Onboarding(t)
  /\ state # Nil
  /\ state.step = "awaiting_ln_address"
  /\ localNpubMap' = Remembered(t)
  /\ userWallets' = updateLnAddress(userWallets, state.npub, lnAddress)
  /\ onboardingState' = [onboardingState EXCEPT ![u] = Nil]
  /\ task' = [task EXCEPT ![t].pc = "notifyAfterAddress", ![t].st = state]
  /\ Logs(t, <<>>, Append(cvmLog[t], NewUserNote(u, state.npub)), walletCalls[t], <<>>)
  /\ UNCHANGED <<pendingStore, environment, makePaymentCalls>>

\* finishOnboarding 186-205 called from line 324: a rejected notification
\* lands in the catch block of handleOnboarding
NotifiedAfterAddress(t) ==
  \E ok \in BOOLEAN :
    LET u == task[t].from IN
    /\ Quiet
    /\ task[t].pc = "notifyAfterAddress"
    /\ task' = [task EXCEPT ![t].pc = "done"]
    /\ IF ok
       THEN /\ Logs(t, <<Msg(u, Completion)>>, Resolve(cvmLog[t], "ok"),
                    walletCalls[t], <<>>)
            /\ UNCHANGED onboardingState
       ELSE OnboardingCaught(t, Resolve(cvmLog[t], "failed"))
    /\ UNCHANGED <<db, pendingStore, environment, makePaymentCalls>>

\* ---------------------------------------------------------------- approval
\* worker.ts 354, 360: a known user outside onboarding
Approval(t) ==
  /\ task[t].pc = "received"
  /\ trim(task[t].text) # NoText
  /\ ~ToOnboarding(Remembered(t), task[t].from)

\* a worker that answers a text it has no handler for
HandleNoHandlerAnswered(t) ==
  /\ Approval(t)
  /\ ~isYes(trim(task[t].text))
  /\ localNpubMap' = Remembered(t)
  /\ task' = [task EXCEPT ![t].pc = "done"]
  /\ Logs(t, <<Msg(task[t].from, "Sorry, I did not understand that.")>>, cvmLog[t],
          walletCalls[t], <<>>)
  /\ UNCHANGED <<userWallets, onboardingState, pendingStore, environment, makePaymentCalls>>

\* worker.ts 404-405
HandleNoHandler(t) ==
  /\ Approval(t)
  /\ ~isYes(trim(task[t].text))
  /\ localNpubMap' = Remembered(t)
  /\ task' = [task EXCEPT ![t].pc = "done"]
  /\ UNCHANGED <<userWallets, onboardingState, pendingStore, environment, NoLogs,
                 makePaymentCalls>>

\* a store that hands the record out and keeps it
retrieveAndKeep(store, gatewayUser) ==
  [payment |-> store[gatewayUser], store |-> store]

\* pending_store retrieveAndClearConfirmation: the record read and removed
\* in one step
retrieveAndClearConfirmation(store, gatewayUser) ==
  [payment |-> store[gatewayUser], store |-> [store EXCEPT ![gatewayUser] = Nil]]

\* a worker that answers a 'yes' with nothing pending
HandleYesNothingAnswered(t) ==
  LET cleared == retrieveAndClearConfirmation(pendingStore, task[t].from) IN
  /\ Approval(t)
  /\ isYes(trim(task[t].text))
  /\ cleared.payment = Nil
  /\ pendingStore' = cleared.store
  /\ localNpubMap' = Remembered(t)
  /\ task' = [task EXCEPT ![t].pc = "done"]
  /\ Logs(t, <<Msg(task[t].from, "Nothing to confirm.")>>, cvmLog[t], walletCalls[t], <<>>)
  /\ UNCHANGED <<userWallets, onboardingState, environment, makePaymentCalls>>

\* worker.ts 360-364, 398-401: 'yes' with nothing pending
HandleYesNothing(t) ==
  LET cleared == retrieveAndClearConfirmation(pendingStore, task[t].from) IN
  /\ Approval(t)
  /\ isYes(trim(task[t].text))
  /\ cleared.payment = Nil
  /\ pendingStore' = cleared.store
  /\ localNpubMap' = Remembered(t)
  /\ task' = [task EXCEPT ![t].pc = "done"]
  /\ UNCHANGED <<userWallets, onboardingState, environment, NoLogs, makePaymentCalls>>


PayCall(name, invoice) == [call |-> name, result |-> "pending", invoice |-> invoice]

\* a callback without the guard: its promise is rejected with the error
CallbackRejects(self) == [self EXCEPT !.pc = "rejected", !.caught = TRUE]

\* worker.ts 407-409: the catch of the callback; the callback with locals
\* self returns normally after console.error
CallbackCaught(self) == [self EXCEPT !.pc = "done", !.caught = TRUE]

MissingDetails(details) == details.lnAddress = NULL \/ details.amount = 0

\* a worker that reports every outcome as paid
OutcomeTagPaid(result) == "paid"

\* worker.ts 393, 396: the tag of the payment-outcome notification
OutcomeTag(result) == IF result.success THEN "paid" ELSE "rejected"

\* worker.ts 366-382 and 394-396, the continuation of `await makePayment`
\* for the callback with locals self: a failure is reported, a success first
\* asks for the balance (getBalance 481-494 up to its await)
Returned(t, self, result, calls, errors) ==
  LET u == self.from
      wallet == loadWallet(userWallets, sharedNwc, self.pay.npub) IN
  IF result.success
  THEN /\ task' = [task EXCEPT ![t] = [self EXCEPT !.pc = "getBalance", !.res = result]]
       /\ Logs(t, <<>>, cvmLog[t],
               IF wallet # Nil THEN Append(calls, Call("getBalance")) ELSE calls, errors)
  ELSE /\ task' = [task EXCEPT ![t] =
                     [self EXCEPT !.pc = "sendPaymentConfirmation", !.res = result]]
       /\ Logs(t, <<[to |-> u, body |-> PaymentFailed, error |-> result.error]>>,
               Append(cvmLog[t], PaymentNote(OutcomeTag(result), result.error, self.pay)),
               calls, errors)

\* worker.ts 360-366 with makePayment 371-392, 405-411 up to its first
\* await; loadWallet (line 374) may throw, which lands in the catch of the
\* worker (407-409)
HandleYes(t) ==
  \E loadOk \in BOOLEAN :
    LET u == task[t].from
        cleared == retrieveAndClearConfirmation(pendingStore, u)
        pendingPayment == cleared.payment
        wallet == loadWallet(userWallets, sharedNwc, pendingPayment.npub)
        self == [task[t] EXCEPT !.pay = pendingPayment, !.wallet = wallet]
        Suspend(pc, call) ==
          /\ task' = [task EXCEPT ![t] = [self EXCEPT !.pc = pc]]
          /\ Logs(t, <<>>, cvmLog[t], Append(walletCalls[t], call), <<>>) IN
    /\ Approval(t)
    /\ isYes(trim(task[t].text))
    /\ pendingPayment # Nil
    /\ pendingStore' = cleared.store
    /\ localNpubMap' = Remembered(t)
    /\ makePaymentCalls' = [makePaymentCalls EXCEPT ![pendingPayment.id] = @ + 1]
    /\ IF ~loadOk
       THEN /\ task' = [task EXCEPT ![t] =
                          CallbackCaught([task[t] EXCEPT !.pay = pendingPayment])]
            /\ Logs(t, <<>>, cvmLog[t], walletCalls[t],
                    <<Logged("CRITICAL ERROR in consumeIdentityBeacon", NoText)>>)
       ELSE IF wallet = Nil
            THEN Returned(t, self, Failed(Text("No wallet found for user"), <<>>),
                          walletCalls[t], <<>>)
       ELSE IF wallet.type = "api"
            THEN Suspend("refreshLedger", Call("refreshLedger"))
       ELSE IF pendingPayment.type # "ln_address"
            THEN Suspend("nwcPayInvoice", PayCall("payInvoice", pendingPayment.lnInvoice))
       ELSE IF MissingDetails(pendingPayment)
            THEN Returned(t, self, Failed(Text("Missing lnAddress or amount"), <<>>),
                          walletCalls[t], <<>>)
       ELSE Suspend("lnurlParams", Call("lnurlParams"))
    /\ UNCHANGED <<userWallets, onboardingState, environment>>

\* a dispatcher without catch: the error reaches the catch of the worker
NwcPropagated(t, calls, message) ==
  /\ task' = [task EXCEPT ![t].pc = "done", ![t].caught = TRUE]
  /\ Logs(t, <<>>, cvmLog[t], calls, <<Logged("CRITICAL ERROR in consumeIdentityBeacon", NoText)>>)

\* makePayment 398-402: the catch block of the protocol-wallet path
NwcCaught(t, calls, message) ==
  Returned(t, task[t], Failed(OrElse(message, "An unknown error occurred."), <<>>),
           calls, <<Logged("makePayment failed", NoText)>>)

\* getInvoiceFromLnAddress 339-349: the payment parameters arrived
LnurlParams(t) ==
  \E ok \in BOOLEAN :
    /\ Quiet
    /\ task[t].pc = "lnurlParams"
    /\ IF ok
       THEN /\ task' = [task EXCEPT ![t].pc = "lnurlCallback"]
            /\ Logs(t, <<>>, cvmLog[t],
                    Append(Resolve(walletCalls[t], "ok"), Call("lnurlCallback")), <<>>)
       ELSE NwcCaught(t, Resolve(walletCalls[t], "failed"), Text("LNURL-pay failed"))
    /\ UNCHANGED <<db, onboardingState, pendingStore, environment, makePaymentCalls>>

\* what the callback of the wallet discovery protocol may answer for a
\* request of amountMsats: an invoice of that amount, of another, of none
CallbackInvoice(amountMsats, answer) ==
  CASE answer = "exact" -> Invoice(amountMsats)
    [] answer = "other" -> Invoice(amountMsats + 1)
    [] OTHER -> Invoice(NoAmount)

\* a check that lets every invoice through
invoiceAmountUnverified(invoice, amountMsats) == TRUE

\* getInvoiceFromLnAddress 357-361: String(invoiceAmountMsats) ===
\* String(amountMsats); an invoice without amount gives 'undefined'
invoiceAmountVerified(invoice, amountMsats) == InvoiceAmount(invoice) = amountMsats

\* getInvoiceFromLnAddress 350-364 and makePayment 392 up to the await of
\* payInvoice
LnurlCallback(t) ==
  \E ok \in BOOLEAN, answer \in {"exact", "other", "none"} :
    LET amountMsats == task[t].pay.amount * 1000
        invoice == CallbackInvoice(amountMsats, answer)
        answered == [walletCalls[t] EXCEPT ![Len(walletCalls[t])] =
                       [PayCall("lnurlCallback", invoice) EXCEPT !.result = "ok"]] IN
    /\ Quiet
    /\ task[t].pc = "lnurlCallback"
    /\ IF ~ok
       THEN /\ answer = "exact"
            /\ NwcCaught(t, Resolve(walletCalls[t], "failed"), Text("Failed to get invoice"))
       ELSE IF ~invoiceAmountVerified(invoice, amountMsats)
            THEN NwcCaught(t, answered, Text("Invoice amount mismatch"))
       ELSE /\ task' = [task EXCEPT ![t].pc = "nwcPayInvoice"]
            /\ Logs(t, <<>>, cvmLog[t], Append(answered, PayCall("payInvoice", invoice)),
                    <<>>)
    /\ UNCHANGED <<db, onboardingState, pendingStore, environment, makePaymentCalls>>

\* what payInvoice of the protocol wallet answers: a preimage or none

\* makePayment 392-402 after payInvoice settled
NwcPaid(t) ==
  \E ok \in BOOLEAN, preimage \in {JStr(Hex64), JUndef},
     message \in {Text("relay timeout"), JStr(<<>>)} :
    /\ Quiet
    /\ task[t].pc = "nwcPayInvoice"
    /\ ok => message = JStr(<<>>)
    /\ IF ~ok
       THEN /\ preimage = JUndef
            /\ NwcCaught(t, Resolve(walletCalls[t], "failed"), message)
       ELSE Returned(t, task[t],
                     IF ~Falsy(preimage) THEN Paid(preimage)
                     ELSE Failed(Text("Payment was rejected or failed."), <<>>),
                     Resolve(walletCalls[t], "ok"), <<>>)
    /\ UNCHANGED <<db, onboardingState, pendingStore, environment, makePaymentCalls>>

\* a dispatcher that gives up when the ledger refresh fails
LedgerRefreshedOrAborted(t) ==
  \E ok \in BOOLEAN :
    /\ Quiet
    /\ task[t].pc = "refreshLedger"
    /\ IF ok
       THEN /\ task' = [task EXCEPT ![t].pc = "fetchBalance"]
            /\ Logs(t, <<>>, cvmLog[t],
                    Append(Resolve(walletCalls[t], "ok"), Call("fetchBalance")), <<>>)
       ELSE Returned(t, task[t], Failed(Text("refreshLedger failed"), <<>>),
                     Resolve(walletCalls[t], "failed"),
                     <<Logged("refreshLedger failed (non-fatal)", NoText)>>)
    /\ UNCHANGED <<db, onboardingState, pendingStore, environment, makePaymentCalls>>

\* refreshLedgerIfSupported 320-327 settled; makePayment 415-417 up to the
\* await of nwcliFetchBalance
LedgerRefreshed(t) ==
  \E ok \in BOOLEAN :
    /\ Quiet
    /\ task[t].pc = "refreshLedger"
    /\ task' = [task EXCEPT ![t].pc = "fetchBalance"]
    /\ Logs(t, <<>>, cvmLog[t],
            Append(Resolve(walletCalls[t], Outcome(ok)), Call("fetchBalance")),
            IF ok THEN <<>> ELSE <<Logged("refreshLedger failed (non-fatal)", NoText)>>)
    /\ UNCHANGED <<db, onboardingState, pendingStore, environment, makePaymentCalls>>


\* makePayment 417-456 after nwcliFetchBalance settled, up to the await of
\* the payment call
BalanceSnapshot(t) ==
  \E ok \in BOOLEAN, balanceResponse \in BalanceResponses :
    LET details == task[t].pay
        balanceSnapshot ==
          IF ok THEN [balanceMsats |-> extractMsats(balanceResponse),
                      pendingMsats |-> extractPendingMsats(balanceResponse)]
          ELSE [balanceMsats |-> JNull, pendingMsats |-> JNull]
        self == [task[t] EXCEPT !.snap = balanceSnapshot]
        calls == Resolve(walletCalls[t], Outcome(ok))
        errors == IF ok THEN <<>> ELSE <<Logged("Failed to fetch balance before payment", NoText)>> IN
    /\ Quiet
    /\ task[t].pc = "fetchBalance"
    /\ IF details.type = "ln_address" /\ MissingDetails(details)
       THEN Returned(t, self, Failed(Text("Missing lnAddress or amount"), <<>>),
                     calls, errors)
       ELSE /\ task' = [task EXCEPT ![t] = [self EXCEPT !.pc = "apiPay"]]
            /\ Logs(t, <<>>, cvmLog[t],
                    Append(calls,
                           IF details.type = "ln_address" THEN Call("payLnAddress")
                           ELSE PayCall("payInvoice", details.lnInvoice)),
                    errors)
    /\ UNCHANGED <<db, onboardingState, pendingStore, environment, makePaymentCalls>>

\* makePayment 433-434
RequestMsats(details) ==
  IF details.type = "ln_address"
  THEN (IF details.amount # 0 THEN JNum(details.amount * 1000) ELSE JNull)
  ELSE (IF details.lnInvoice # NULL THEN decodeInvoiceMsats(details.lnInvoice) ELSE JNull)

\* a dispatcher that issues a failed pay call once more
ApiPaidRetrying(t) ==
  /\ Quiet
  /\ task[t].pc = "apiPay"
  /\ Len(walletCalls[t]) < 5
  /\ Logs(t, <<>>, cvmLog[t],
          Append(Resolve(walletCalls[t], "failed"),
                 [walletCalls[t][Len(walletCalls[t])] EXCEPT !.result = "pending"]),
          <<Logged("makePayment failed", NoText)>>)
  /\ UNCHANGED <<db, onboardingState, pendingStore, environment, makePaymentCalls, task>>

\* makePayment 436-473 after the payment call settled: the response is
\* interpreted, a thrown error is caught
ApiPaid(t) ==
  \E ok \in BOOLEAN, response \in PayResponses, error \in PayErrors :
    LET details == task[t].pay
        insight == buildBalanceInsight(task[t].snap.balanceMsats,
                                       task[t].snap.pendingMsats, RequestMsats(details))
        interpreted == interpretNwcliPaymentResponse(response) IN
    /\ Quiet
    /\ task[t].pc = "apiPay"
    /\ IF ok
       THEN /\ error = CHOOSE e \in PayErrors : TRUE
            /\ Returned(t, task[t],
                        IF interpreted.success THEN Paid(interpreted.preimage)
                        ELSE Failed(OrElse(extractErrorMessage(response),
                                           "Payment was rejected or failed."), insight),
                        [walletCalls[t] EXCEPT ![Len(walletCalls[t])] =
                           [call |-> @.call, result |-> "ok", response |-> response]],
                        <<>>)
       ELSE /\ response = CHOOSE r \in PayResponses : TRUE
            /\ Returned(t, task[t],
                        Failed(OrElse(extractMessageFromError(error),
                                      "An unknown error occurred."), insight),
                        Resolve(walletCalls[t], "failed"), <<Logged("makePayment failed", NoText)>>)
    /\ UNCHANGED <<db, onboardingState, pendingStore, environment, makePaymentCalls>>

\* getBalance 494-521 settled and worker.ts 383-393 up to the await of
\* sendPaymentConfirmation
BalanceFetched(t) ==
  \E ok \in BOOLEAN, balanceResponse \in BalanceResponses :
    LET u == task[t].from
        result == task[t].res
        asked == walletCalls[t] # <<>>
                 /\ walletCalls[t][Len(walletCalls[t])].result = "pending"
        msats == extractMsats(balanceResponse)
        balance == IF asked /\ ok /\ msats # JNull
                   THEN JNum(msatsToSats(msats.v)) ELSE JNull IN
    /\ Quiet
    /\ task[t].pc = "getBalance"
    /\ asked \/ ok
    /\ task' = [task EXCEPT ![t].pc = "sendPaymentConfirmation"]
    /\ Logs(t, <<[to |-> u, body |-> Confirmed, receipt |-> result.receipt,
                  balance |-> balance]>>,
            Append(cvmLog[t], PaymentNote(OutcomeTag(result), result.receipt, task[t].pay)),
            IF asked THEN Resolve(walletCalls[t], Outcome(ok)) ELSE walletCalls[t],
            IF ok THEN <<>> ELSE <<Logged("getBalance failed", NoText)>>)
    /\ UNCHANGED <<db, onboardingState, pendingStore, environment, makePaymentCalls>>

\* worker.ts 393, 396: sendPaymentConfirmation settled; a rejection lands
\* in the catch of the worker (407-409)
ConfirmationSent(t) ==
  \E ok \in BOOLEAN :
    /\ Quiet
    /\ task[t].pc = "sendPaymentConfirmation"
    /\ task' = [task EXCEPT ![t] =
         IF ok THEN [task[t] EXCEPT !.pc = "done"] ELSE CallbackCaught(task[t])]
    /\ Logs(t, <<>>, Resolve(cvmLog[t], Outcome(ok)), walletCalls[t],
            IF ok THEN <<>> ELSE <<Logged("CRITICAL ERROR in consumeIdentityBeacon", NoText)>>)
    /\ UNCHANGED <<db, onboardingState, pendingStore, environment, makePaymentCalls>>

\* ---------------------------------------------------------------- around the worker
RetiredTask == [IdleTask EXCEPT !.pc = "retired"]

\* the callback of message t has returned: its locals and what it wrote are
\* no longer looked at
Retire(t) ==
  /\ task[t].pc = "done"
  /\ task' = [task EXCEPT ![t] = RetiredTask]
  /\ identityOut' = [identityOut EXCEPT ![t] = <<>>]
  /\ cvmLog' = [cvmLog EXCEPT ![t] = <<>>]
  /\ walletCalls' = [walletCalls EXCEPT ![t] = <<>>]
  /\ consoleError' = [consoleError EXCEPT ![t] = <<>>]
  /\ UNCHANGED <<db, onboardingState, pendingStore, environment, makePaymentCalls>>

\* pending_store: the upstream stores a payment request for a mapped user,
\* replacing the one held for that user
StorePending(gatewayUser, shape) ==
  /\ Quiet
  /\ nextRequest <= MaxRequests
  /\ localNpubMap[gatewayUser] # NoRow
  /\ pendingStore' = [pendingStore EXCEPT ![gatewayUser] =
       Payment(nextRequest, localNpubMap[gatewayUser].user_npub, shape)]
  /\ nextRequest' = nextRequest + 1
  /\ UNCHANGED <<db, onboardingState, sharedNwc, nextKey, crashes, interrupted, task, NoLogs,
                 makePaymentCalls>>

\* worker.ts 365: the callback of message t is suspended inside
\* `await makePayment(pendingPayment)`
InMakePayment(t) ==
  task[t].pc \in {"lnurlParams", "lnurlCallback", "nwcPayInvoice", "refreshLedger",
                  "fetchBalance", "apiPay"}

\* a restart that the suspended callbacks survive
CrashResumes ==
  /\ Quiet
  /\ crashes < MaxCrashes
  /\ \E t \in Tasks : InFlight(t)
  /\ crashes' = crashes + 1
  /\ interrupted' = interrupted \cup {task[t].pay.id : t \in {r \in Tasks : InMakePayment(r)}}
  /\ onboardingState' = [u \in Users |-> Nil]
  /\ UNCHANGED <<db, pendingStore, sharedNwc, nextKey, nextRequest, task, NoLogs,
                 makePaymentCalls>>

\* the process restarts: worker.ts line 24 builds an empty map, the
\* callbacks that were suspended are gone; the tables and the pending store
\* are outside the process
Crash ==
  /\ Quiet
  /\ crashes < MaxCrashes
  /\ \/ \E t \in Tasks : InFlight(t)
     \/ \E u \in Users : onboardingState[u] # Nil
  /\ crashes' = crashes + 1
  /\ interrupted' = interrupted \cup {task[t].pay.id : t \in {r \in Tasks : InMakePayment(r)}}
  /\ onboardingState' = [u \in Users |-> Nil]
  /\ task' = [t \in Tasks |-> IF InFlight(t) THEN RetiredTask ELSE task[t]]
  /\ identityOut' = [t \in Tasks |-> IF InFlight(t) THEN <<>> ELSE identityOut[t]]
  /\ cvmLog' = [t \in Tasks |-> IF InFlight(t) THEN <<>> ELSE cvmLog[t]]
  /\ walletCalls' = [t \in Tasks |-> IF InFlight(t) THEN <<>> ELSE walletCalls[t]]
  /\ consoleError' = [t \in Tasks |-> IF InFlight(t) THEN <<>> ELSE consoleError[t]]
  /\ UNCHANGED <<db, pendingStore, sharedNwc, nextKey, nextRequest, makePaymentCalls>>

\* the messages the queue may hold: every text without a bot id, and one
\* text with a bot id
Messages ==
  ({"u1"} \X Texts \X {NoBot}) \cup ({"u1"} \X {T_hi} \X BotIds)
    \cup ({"u2"} \X {S_yes} \X {NoBot})

Init ==
  \E kind \in [Users -> {"unknown", "nwc", "api", "nowallet"}], shared \in {NoText, SharedNwcUri} :
    /\ kind["u2"] = "api"
    /\ InitWith(kind, shared)

Next ==
  \/ \E t \in Tasks, m \in Messages : Receive(t, m[1], m[2], m[3])
  \/ \E t \in Tasks : HandleEmpty(t)
  \/ \E t \in Tasks : HandleNewUser(t)
  \/ \E t \in Tasks : NewUserCreated(t)
  \/ \E t \in Tasks : HandleNwcString(t)
  \/ \E t \in Tasks : NwcValidated(t)
  \/ \E t \in Tasks : HandleChoice1(t)
  \/ \E t \in Tasks : HandleChoice2(t)
  \/ \E t \in Tasks : SubAccountCreated(t)
  \/ \E t \in Tasks : NotifiedAfterGenerate(t)
  \/ \E t \in Tasks : HandleChoiceOther(t)
  \/ \E t \in Tasks : HandleNwcOther(t)
  \/ \E t \in Tasks : HandleLnAddress(t)
  \/ \E t \in Tasks : NotifiedAfterAddress(t)
  \/ \E t \in Tasks : HandleNoHandler(t)
  \/ \E t \in Tasks : HandleYesNothing(t)
  \/ \E t \in Tasks : HandleYes(t)
  \/ \E t \in Tasks : LnurlParams(t)
  \/ \E t \in Tasks : LnurlCallback(t)
  \/ \E t \in Tasks : NwcPaid(t)
  \/ \E t \in Tasks : LedgerRefreshed(t)
  \/ \E t \in Tasks : BalanceSnapshot(t)
  \/ \E t \in Tasks : ApiPaid(t)
  \/ \E t \in Tasks : BalanceFetched(t)
  \/ \E t \in Tasks : ConfirmationSent(t)
  \/ \E t \in Tasks : Retire(t)
  \/ \E u \in Users, shape \in PaymentShapes : StorePending(u, shape)
  \/ Crash

Spec == Init /\ [][Next]_vars


C2_AtMostOneDispatch ==
  /\ \A id \in 1..MaxRequests : makePaymentCalls[id] <= 1
  /\ \A t1, t2 \in Tasks :
       t1 # t2 /\ task[t1].pay # Nil /\ task[t2].pay # Nil
         => task[t1].pay.id # task[t2].pay.id

\* a second "yes" of the same user returned with nothing while the dispatch
\* of the first is still suspended
C2_Witness ==
  \E t1, t2 \in Tasks :
    /\ t1 # t2
    /\ task[t1].from = task[t2].from
    /\ InFlight(t1)
    /\ task[t1].pay # Nil
    /\ makePaymentCalls[task[t1].pay.id] = 1
    /\ task[t2].pc = "done"
    /\ toLowerCase(trim(task[t2].text)) = S_yes
    /\ task[t2].pay = Nil
    /\ identityOut[t2] = <<>>

\* C3: the step that handles "yes" from a user with a mapping row, no
\* onboarding state and nothing pending returns at once, calls makePayment
\* for no request, enqueues no message, notifies nobody and calls no wallet.
C3_YesWithNothingPending ==
  [][\A t \in Tasks :
       LET u == task[t].from IN
       ( /\ task[t].pc = "received"
         /\ toLowerCase(trim(task[t].text)) = S_yes
         /\ localNpubMap[u] # NoRow
         /\ onboardingState[u] = Nil
         /\ pendingStore[u] = Nil )
       => /\ task'[t].pc = "done"
          /\ task'[t].pay = Nil
          /\ makePaymentCalls' = makePaymentCalls
          /\ identityOut' = identityOut
          /\ cvmLog' = cvmLog
          /\ walletCalls' = walletCalls]_vars

C3_Witness ==
  \E t \in Tasks :
    /\ task[t].pc = "done"
    /\ toLowerCase(trim(task[t].text)) = S_yes
    /\ localNpubMap[task[t].from] # NoRow
    /\ onboardingState[task[t].from] = Nil
    /\ task[t].st = Nil
    /\ task[t].pay = Nil
    /\ ~task[t].caught
    /\ identityOut[t] = <<>>
    /\ cvmLog[t] = <<>>

\* the payment-outcome notifications of a log
PaymentNotes(log) == {i \in 1..Len(log) : log[i].kind = "payment"}

\* C4: once makePayment has returned a result to a callback and the callback
\* has gone on to report it, the callback has enqueued exactly one message,
\* to the sender, and sent exactly one payment-outcome notification, for the
\* payment it dispatched: the confirmation and tag paid for a success, the
\* failure text with the result's error and tag rejected for a failure.
C4_OneOutcomeReport ==
  \A t \in Tasks :
    (task[t].res # Nil /\ task[t].pc \in {"sendPaymentConfirmation", "done"}) =>
      /\ Len(identityOut[t]) = 1
      /\ identityOut[t][1].to = task[t].from
      /\ Len(cvmLog[t]) = 1
      /\ cvmLog[t][1].kind = "payment"
      /\ cvmLog[t][1].payment = task[t].pay
      /\ IF task[t].res.success
         THEN /\ identityOut[t][1].body = Confirmed
              /\ cvmLog[t][1].tag = "paid"
         ELSE /\ identityOut[t][1].body = PaymentFailed
              /\ identityOut[t][1].error = task[t].res.error
              /\ cvmLog[t][1].tag = "rejected"

C4_Witness ==
  \E t \in Tasks :
    /\ task[t].pc = "done"
    /\ task[t].res # Nil
    /\ ~task[t].res.success
    /\ task[t].res.error.insight # <<>>
    /\ cvmLog[t][1].tag = "rejected"
    /\ cvmLog[t][1].result = "ok"


\* the last entry of a log has the given result
Settled(log, result) == log # <<>> /\ log[Len(log)].result = result

IsApiRow(row) ==
  row # NoRow /\ row.wallet_type = "api" /\ row.api_identifier # NULL
    /\ row.encrypted_nwc_string = NULL

InStep(state, step) == state # Nil /\ state.step = step

\* C5 as stated: when the sub-account requested for a reply "2" (in
\* awaiting_choice or awaiting_nwc) is provisioned, a wallet row of kind api
\* is persisted for the identity and the state becomes awaiting_ln_address.
C5_GenerateThenLnAddress ==
  [][\A t \in Tasks :
       (task[t].pc = "createSubAccount" /\ Settled(walletCalls'[t], "ok")) =>
         /\ IsApiRow(userWallets'[task[t].st.npub])
         /\ InStep(onboardingState'[task[t].from], "awaiting_ln_address")]_vars

\* C5 as amended: when the sub-account requested for a reply "2" (in
\* awaiting_choice or awaiting_nwc) is provisioned, saveApiWallet writes the
\* api row of the identity, or logs the storage error of that write and
\* leaves the table as it was, and onboarding completes at once: the state
\* entry of the user is deleted and the new-user notification for the
\* identity is sent; the state does not become awaiting_ln_address.
C5_GenerateCompletes ==
  [][\A t \in Tasks :
       (task[t].pc = "createSubAccount" /\ Settled(walletCalls'[t], "ok")) =>
         LET u == task[t].from
             npub == task[t].st.npub
             sub == SubAccount(generateSubAccountLabel(u, npub)) IN
         /\ task[t].st.step \in {"awaiting_choice", "awaiting_nwc"}
         /\ parseWalletChoice(trim(task[t].text)) = "2"
         /\ \/ /\ userWallets'[npub] = ApiRow(sub.identifier, sub.id, sub.label)
               /\ consoleError'[t] = consoleError[t]
            \/ /\ userWallets' = userWallets
               /\ consoleError'[t] = Append(consoleError[t], Logged("saveApiWallet DB error", NoText))
         /\ onboardingState'[u] = Nil
         /\ cvmLog'[t] = <<NewUserNote(u, npub)>>
         /\ identityOut'[t] = <<>>]_vars

\* choice "2" given in awaiting_nwc, the sub-account provisioned, the row written
C5_Witness ==
  \E t \in Tasks :
    /\ task[t].pc = "notifyAfterGenerate"
    /\ task[t].st.step = "awaiting_nwc"
    /\ IsApiRow(userWallets[task[t].st.npub])
    /\ onboardingState[task[t].from] = Nil

\* the message comes from a user without mapping row and without state
Unmapped(t) ==
  /\ task[t].pc = "received"
  /\ localNpubMap[task[t].from] = NoRow
  /\ onboardingState[task[t].from] = Nil

\* callback t ends its createNewUser step with a fresh identity mapped, the
\* state awaiting_choice carrying it, and the two-option prompt as its only
\* message
Onboarded(t) ==
  LET u == task[t].from IN
  /\ localNpubMap'[u] # NoRow
  /\ localNpubMap'[u].user_npub = nextKey
  /\ \A v \in Users : localNpubMap[v] = NoRow \/ localNpubMap[v].user_npub # nextKey
  /\ onboardingState'[u] = Step("awaiting_choice", nextKey)
  /\ identityOut'[t] = <<Msg(u, PromptChoice)>>

\* C6 as stated: every text from a user without mapping and state makes the
\* handler allocate a new identity, persist the mapping, set awaiting_choice
\* with that identity and send the two-option prompt exactly once.
C6_AnyTextOnboards ==
  [][\A t \in Tasks :
       /\ Unmapped(t) => task'[t].pc = "createNewUser"
       /\ (task[t].pc = "createNewUser" /\ task'[t].pc = "done") => Onboarded(t)]_vars

\* C6 as amended: a text that is blank after trimming is dropped with no
\* effect; any other text from a user without mapping and state makes the
\* handler ask for a new identity, and when the identity is created and its
\* mapping written, the mapping is persisted, the state is awaiting_choice
\* with that identity and the two-option prompt is the one message sent;
\* when that fails, the one message sent is the apology and neither mapping
\* nor state is created.
C6_FirstContact ==
  [][\A t \in Tasks :
       LET u == task[t].from IN
       /\ (Unmapped(t) /\ trim(task[t].text) # NoText) =>
            /\ task'[t].pc = "createNewUser"
            /\ identityOut'[t] = <<>>
       /\ (Unmapped(t) /\ trim(task[t].text) = NoText) =>
            /\ task'[t].pc = "done"
            /\ identityOut'[t] = <<>>
            /\ UNCHANGED <<localNpubMap, onboardingState, userWallets>>
       /\ (task[t].pc = "createNewUser" /\ task'[t].pc = "done") =>
            \/ Onboarded(t)
            \/ /\ identityOut'[t] = <<Msg(u, CreateError)>>
               /\ UNCHANGED <<localNpubMap, onboardingState>>]_vars

C6_Witness ==
  \E t \in Tasks :
    LET u == task[t].from IN
    /\ task[t].pc = "done"
    /\ identityOut[t] = <<Msg(u, PromptChoice)>>
    /\ InStep(onboardingState[u], "awaiting_choice")
    /\ localNpubMap[u] # NoRow
    /\ localNpubMap[u].user_npub = onboardingState[u].npub
    /\ localNpubMap[u].user_npub > MaxPreKey


C8_CredentialValidated ==
  [][\A t \in Tasks :
       LET u == task[t].from IN
       /\ ( /\ task[t].pc = "received"
            /\ onboardingState[u] # Nil
            /\ onboardingState[u].step \in {"awaiting_choice", "awaiting_nwc"}
            /\ startsWith(toLowerCase(trim(task[t].text)), S_nwcScheme) ) =>
            /\ task'[t].pc = "validateNwcString"
            /\ walletCalls'[t] = <<Call("validateNwcString")>>
       /\ (task[t].pc = "validateNwcString" /\ Settled(walletCalls'[t], "ok")) =>
            /\ userWallets'[task[t].st.npub] = NwcRow(encrypt(trim(task[t].text)), NULL)
            /\ onboardingState'[u] = Step("awaiting_ln_address", task[t].st.npub)
       /\ (task[t].pc = "validateNwcString" /\ Settled(walletCalls'[t], "failed")) =>
            /\ UNCHANGED <<userWallets, localNpubMap, onboardingState>>
            /\ identityOut'[t] = <<Msg(u, NwcInvalid)>>]_vars

\* C9: in awaiting_choice the input "1" moves the state to awaiting_nwc with
\* the identity it carried and sends the credential prompt; the inputs "hi",
\* "Yes" and "No", which are neither a connection string nor a choice, leave
\* every state entry and both tables as they are and send the two-option
\* prompt again; either way that is the one message of the handler.
C9_ChoiceOneAndSelfLoop ==
  [][\A t \in Tasks :
       LET u == task[t].from
           input == trim(task[t].text) IN
       (task[t].pc = "received" /\ InStep(onboardingState[u], "awaiting_choice")) =>
         /\ input = <<"1">> =>
              /\ onboardingState'[u] = Step("awaiting_nwc", onboardingState[u].npub)
              /\ identityOut'[t] = <<Msg(u, AskNwc)>>
              /\ task'[t].pc = "done"
              /\ UNCHANGED userWallets
         /\ input \in {<<"h", "i">>, <<"Y", "e", "s">>, <<"N", "o">>} =>
              /\ UNCHANGED <<onboardingState, userWallets>>
              /\ identityOut'[t] = <<Msg(u, PromptChoice)>>
              /\ task'[t].pc = "done"]_vars

\* "1" answered in awaiting_choice
C9_Witness ==
  \E t \in Tasks :
    /\ task[t].pc = "done"
    /\ trim(task[t].text) = <<"1">>
    /\ InStep(task[t].st, "awaiting_choice")
    /\ onboardingState[task[t].from] = Step("awaiting_nwc", task[t].st.npub)
    /\ identityOut[t] = <<Msg(task[t].from, AskNwc)>>

\* an awaited call of handleOnboarding fails in this step of callback t
RaisedInGenerate(t) ==
  \/ task[t].pc = "createSubAccount" /\ Settled(walletCalls'[t], "failed")
  \/ task[t].pc = "notifyAfterGenerate" /\ Settled(cvmLog'[t], "failed")

RaisedInLnAddress(t) ==
  task[t].pc = "notifyAfterAddress" /\ Settled(cvmLog'[t], "failed")

\* the generic failure message is the one message of the step, the state
\* entry is gone, and the callback returns without the worker's catch
GenericFailure(t) ==
  /\ identityOut'[t] = Append(identityOut[t], Msg(task[t].from, CriticalError))
  /\ onboardingState'[task[t].from] = Nil
  /\ task'[t].pc = "done"
  /\ ~task'[t].caught

C11_LostStateRestarts ==
  [][/\ \A u \in Users :
          (onboardingState[u] # Nil /\ crashes' = crashes + 1) =>
            (localNpubMap'[u] = NoRow \/ onboardingState'[u] # Nil)
     /\ \A t \in Tasks :
          /\ RaisedInLnAddress(t) =>
               ( \/ localNpubMap'[task[t].from] = NoRow
                 \/ onboardingState'[task[t].from] # Nil )
          /\ ( /\ task[t].pc = "received"
               /\ trim(task[t].text) # NoText
               /\ ToOnboarding(localNpubMap, task[t].from)
               /\ onboardingState[task[t].from] = Nil ) =>
               task'[t].pc = "createNewUser"
          /\ ( /\ task[t].pc = "createNewUser"
               /\ task'[t].pc = "done"
               /\ localNpubMap'[task[t].from] # localNpubMap[task[t].from] ) =>
               /\ InStep(onboardingState'[task[t].from], "awaiting_choice")
               /\ identityOut'[t] = <<Msg(task[t].from, PromptChoice)>>]_vars


\* callback t enters finishOnboarding in this step
ReachesCompleted(t) ==
  /\ task[t].pc \notin {"notifyAfterGenerate", "notifyAfterAddress"}
  /\ task'[t].pc \in {"notifyAfterGenerate", "notifyAfterAddress"}

\* C12: each time the completed step is reached the new-user notification is
\* sent and the state entry of the user is deleted, no other entry of the
\* onboarding map changes, and the map stays as it is when the entry was
\* already gone; when the notification call settles, the closing message is
\* sent, the onboarding map is not touched and the user has no state entry.
C12_CompletedStep ==
  [][\A t \in Tasks :
       LET u == task[t].from IN
       /\ ReachesCompleted(t) =>
            /\ cvmLog'[t] = <<NewUserNote(u, task'[t].st.npub)>>
            /\ onboardingState' = [onboardingState EXCEPT ![u] = Nil]
            /\ onboardingState[u] = Nil => onboardingState' = onboardingState
       /\ ( /\ task[t].pc \in {"notifyAfterGenerate", "notifyAfterAddress"}
            /\ task'[t].pc = "done" ) =>
            /\ identityOut'[t] = Append(identityOut[t], Msg(u, Completion))
            /\ onboardingState' = onboardingState
            /\ onboardingState'[u] = Nil]_vars


\* C13: when the discovery callback of an address payment on the
\* protocol-wallet path answers with an invoice whose amount is not the
\* requested amount in millisatoshi, the dispatch has returned a failure
\* and no payInvoice call was made for it.
C13_MismatchNeverPaid ==
  \A t \in Tasks :
    \A i \in 1..Len(walletCalls[t]) :
      ( /\ walletCalls[t][i].call = "lnurlCallback"
        /\ walletCalls[t][i].result = "ok"
        /\ InvoiceAmount(walletCalls[t][i].invoice) # task[t].pay.amount * 1000 ) =>
        /\ task[t].res # Nil
        /\ ~task[t].res.success
        /\ \A j \in 1..Len(walletCalls[t]) : walletCalls[t][j].call # "payInvoice"

\* the callback answered a request of 5000 with an invoice of 5001
C13_Witness ==
  \E t \in Tasks :
    /\ task[t].pc = "sendPaymentConfirmation"
    /\ task[t].wallet # Nil
    /\ task[t].wallet.type = "nwc"
    /\ task[t].pay.type = "ln_address"
    /\ \E i \in 1..Len(walletCalls[t]) :
         /\ walletCalls[t][i].call = "lnurlCallback"
         /\ walletCalls[t][i].result = "ok"
         /\ InvoiceAmount(walletCalls[t][i].invoice) = task[t].pay.amount * 1000 + 1
    /\ ~task[t].res.success
    /\ task[t].res.error.message = Text("Invoice amount mismatch")


\* C14: when a dispatch is made and loadWallet returns no wallet for the
\* user of the payment, makePayment returns success false with the error
\* "No wallet found for user" and no backend call is made.
C14_NoWalletNoBackendCall ==
  [][\A t \in Tasks :
       ( /\ task[t].pc = "received"
         /\ task'[t].pay # Nil
         /\ ~task'[t].caught
         /\ loadWallet(userWallets, sharedNwc, task'[t].pay.npub) = Nil ) =>
         /\ task'[t].res # Nil
         /\ ~task'[t].res.success
         /\ task'[t].res.error.message = Text("No wallet found for user")
         /\ walletCalls'[t] = <<>>]_vars

\* a payment approved by a user with a mapping row and no wallet row, with
\* no shared credential configured
C14_Witness ==
  \E t \in Tasks :
    /\ task[t].pc = "sendPaymentConfirmation"
    /\ task[t].wallet = Nil
    /\ userWallets[task[t].pay.npub] = NoRow
    /\ sharedNwc = NoText
    /\ ~task[t].res.success
    /\ walletCalls[t] = <<>>


\* C15: when a remote call of a dispatch fails (the discovery fetch or its
\* callback, payInvoice of the protocol wallet, the payment call of the HTTP
\* wallet, a non-2xx answer among them), makePayment returns an outcome with
\* success false and an error that is not empty, and the worker goes on to
\* report it: nothing reaches the catch of the worker.
C15_RemoteFailureIsAnOutcome ==
  [][\A t \in Tasks :
       ( /\ task[t].pc \in {"lnurlParams", "lnurlCallback", "nwcPayInvoice", "apiPay"}
         /\ Settled(walletCalls'[t], "failed") ) =>
         /\ task'[t].pc = "sendPaymentConfirmation"
         /\ ~task'[t].caught
         /\ task'[t].res # Nil
         /\ ~task'[t].res.success
         /\ task'[t].res.error.message.t = "str"
         /\ task'[t].res.error.message.v # <<>>
         /\ task'[t].res.error.message.v # <<"">>]_vars

\* the payment call of the HTTP wallet threw an Error without message
C15_Witness ==
  \E t \in Tasks :
    /\ task[t].pc = "sendPaymentConfirmation"
    /\ task[t].wallet # Nil
    /\ task[t].wallet.type = "api"
    /\ Settled(walletCalls[t], "failed")
    /\ ~task[t].res.success
    /\ task[t].res.error.message = Text("An unknown error occurred.")

\* the awaits a callback can be suspended on
AwaitPcs ==
  {"createNewUser", "validateNwcString", "createSubAccount", "notifyAfterGenerate",
   "notifyAfterAddress", "lnurlParams", "lnurlCallback", "nwcPayInvoice",
   "refreshLedger", "fetchBalance", "apiPay", "getBalance", "sendPaymentConfirmation"}

\* something failed in this step of the callback of message t: a remote
\* call or a notification settled as failed, console.error was written, or
\* the dispatch returned a failure
FailsIn(t) ==
  \/ Len(consoleError'[t]) > Len(consoleError[t])
  \/ walletCalls'[t] # walletCalls[t] /\ Settled(walletCalls'[t], "failed")
  \/ cvmLog'[t] # cvmLog[t] /\ Settled(cvmLog'[t], "failed")
  \/ task[t].res = Nil /\ task'[t].res # Nil /\ ~task'[t].res.success

\* C16: every step of the callback of a delivered message, and in particular
\* every step in which something fails (in onboarding, in a table access, in
\* the dispatch, in a notification), leaves the callback suspended on an
\* await or returned normally, never rejected; an error that reached the
\* catch of the callback ends it as returned; and a message delivered while
\* or after another one failed is handled by its own callback in the same
\* way.
C16_CallbackNeverRejects ==
  [][\A t \in Tasks :
       /\ (task[t].pc \in AwaitPcs \cup {"received"} /\ task'[t] # task[t]
             /\ crashes' = crashes) =>
            task'[t].pc \in AwaitPcs \cup {"done"}
       /\ FailsIn(t) => task'[t].pc \in AwaitPcs \cup {"done"}
       /\ (~task[t].caught /\ task'[t].caught) => task'[t].pc = "done"
       /\ (task[t].pc = "idle" /\ task'[t].pc = "received") =>
            \A r \in Tasks : task'[r].pc \in AwaitPcs \cup {"idle", "received", "retired"}]_vars

\* the dispatch of message 1 failed in its first step (no wallet for the
\* user) and its callback waits for the outcome notification; message 2,
\* delivered after that, has been handled and its callback has returned
C16_Witness ==
  /\ task[1].pc = "sendPaymentConfirmation"
  /\ task[1].res # Nil /\ ~task[1].res.success
  /\ walletCalls[1] = <<>>
  /\ task[2].pc = "done" /\ ~task[2].caught

\* a callback ended in the catch of the worker after its outcome
\* notification was rejected
C16_WitnessCaught ==
  \E t \in Tasks :
    /\ task[t].pc = "done" /\ task[t].caught
    /\ Settled(cvmLog[t], "failed")
    /\ consoleError[t] # <<>>

\* the plaintext credentials of this model: what a user sends as a wallet
\* connect string, and the shared one of the configuration
Plaintexts == {trim(text) : text \in {x \in Texts : looksLikeNwcString(x)}} \cup {SharedNwcUri}

\* a console.error entry carries a plaintext credential beside its context
LogsPlaintext(entry) == entry.extra \in Plaintexts

\* a user_wallets row holds a plaintext credential in one of its columns
StoresPlaintext(row) ==
  /\ row # NoRow
  /\ \/ row.ln_address \in Plaintexts
     \/ row.encrypted_nwc_string # NULL /\ row.encrypted_nwc_string[1] # "enc"

\* C17: no column of a wallet row and no console.error entry holds a
\* plaintext wallet connect string, whatever was onboarded, validated
\* (successfully or not), resolved or dispatched.
C17_SecretNeverStoredOrLogged ==
  /\ \A n \in Npubs : ~StoresPlaintext(userWallets[n])
  /\ \A t \in Tasks : \A i \in DOMAIN consoleError[t] : ~LogsPlaintext(consoleError[t][i])

\* C18: every row of user_wallets has exactly one backend kind populated:
\* it is a protocol-wallet row with the encrypted credential set and the
\* three columns of the HTTP wallet NULL, or an HTTP-wallet row with the
\* identifier set and the credential NULL; saves of either kind over an
\* existing row and address updates keep it so.
C18_OneBackendKind ==
  \A n \in Npubs :
    LET row == userWallets[n] IN
    row # NoRow =>
      \/ /\ row.wallet_type = "nwc"
         /\ row.encrypted_nwc_string # NULL
         /\ row.api_identifier = NULL
         /\ row.api_subaccount_id = NULL
         /\ row.api_label = NULL
      \/ /\ row.wallet_type = "api"
         /\ row.api_identifier # NULL
         /\ row.encrypted_nwc_string = NULL

\* a user onboarded in this run holds a protocol-wallet row that was saved
\* and then had its address updated, beside the HTTP-wallet row of u2
C18_Witness ==
  /\ \E n \in Npubs :
       /\ n > MaxPreKey
       /\ userWallets[n] # NoRow
       /\ userWallets[n].wallet_type = "nwc"
       /\ userWallets[n].ln_address # NULL
  /\ userWallets[PreKey("u2")] # NoRow
  /\ userWallets[PreKey("u2")].wallet_type = "api"

\* values of SHARED_NWC_STRING: unset, blank, set, set with spaces around
SharedValues == {NoText, <<" ">>, SharedNwcUri, <<" ">> \o SharedNwcUri \o <<" ">>}

\* rows the table can hold beside those the worker writes: a protocol-wallet
\* row without credential, an HTTP-wallet row without identifier, a row of
\* an unknown kind
OddRows ==
  {NwcRow(NULL, NULL), ApiRow(NULL, NULL, NULL),
   [NwcRow(encrypt(trim(T_nwcUri)), NULL) EXCEPT !.wallet_type = "other"]}

\* the configuration loadWallet builds from an nwc row, from an api row
FromRow(row, npub) ==
  IF row.wallet_type = "nwc"
  THEN [type |-> "nwc", npub |-> npub, nwcUri |-> decrypt(row.encrypted_nwc_string),
        lnAddress |-> row.ln_address]
  ELSE [type |-> "api", npub |-> npub, lnAddress |-> row.ln_address,
        apiIdentifier |-> row.api_identifier, apiSubAccountId |-> row.api_subaccount_id,
        apiLabel |-> row.api_label]

\* what C19 says of the wallet resolved for npub over a table and a shared
\* credential
ResolvedAsSpecified(wallets, shared, npub) ==
  LET row == wallets[npub]
      wallet == loadWallet(wallets, shared, npub)
      sharedWallet ==
        [type |-> "nwc", npub |-> npub, nwcUri |-> trim(shared), lnAddress |-> NULL] IN
  IF row = NoRow
  THEN wallet = (IF trim(shared) # NoText THEN sharedWallet ELSE Nil)
  ELSE /\ wallet # Nil => (row.wallet_type \in {"nwc", "api"} /\ wallet = FromRow(row, npub))
       /\ wallet # sharedWallet

\* C19: over every table the worker produces, and over the same table with
\* an incomplete or unknown row put in, and for every value of the shared
\* credential: with no row the resolver returns the shared protocol wallet
\* when the shared credential is configured and no wallet when it is not;
\* with a row it returns the configuration built from that row or no wallet,
\* never the shared wallet.
C19_SharedOnlyWithoutRow ==
  \A npub \in Npubs, shared \in SharedValues :
    /\ ResolvedAsSpecified(userWallets, shared, npub)
    /\ \A row \in OddRows :
         ResolvedAsSpecified([userWallets EXCEPT ![npub] = row], shared, npub)

\* a dispatch resolved the shared wallet for a user without row, with the
\* shared credential configured, while another user holds a row of their own
C19_Witness ==
  \E t \in Tasks :
    /\ task[t].pc \in {"nwcPayInvoice", "lnurlParams"}
    /\ task[t].wallet # Nil
    /\ userWallets[task[t].pay.npub] = NoRow
    /\ sharedNwc # NoText
    /\ task[t].wallet.nwcUri = sharedNwc
    /\ \E n \in Npubs : userWallets[n] # NoRow /\
         loadWallet(userWallets, sharedNwc, n) = FromRow(userWallets[n], n)

\* C20: when the new-user notification fails, the completion ends as it
\* does when the notification succeeds: the closing message is the one
\* message sent, the state entry of the user stays deleted, and nothing is
\* written to console.error (no failure message, no new prompt).
C20_NotificationFailureHarmless ==
  [][\A t \in Tasks :
       LET u == task[t].from IN
       (/\ task[t].pc \in {"notifyAfterGenerate", "notifyAfterAddress"}
        /\ task'[t].pc = "done"
        /\ Settled(cvmLog'[t], "failed")) =>
         /\ identityOut'[t] = Append(identityOut[t], Msg(u, Completion))
         /\ onboardingState'[u] = Nil
         /\ consoleError'[t] = consoleError[t]]_vars

\* the optional values an upsert may carry: each link absent or present, the
\* bot id absent, empty, blank, present, present with a space before it
UpsertOptions ==
  [beaconBrainNpub : {NULL, <<"brain2">>},
   beaconIdNpub : {NULL, <<"idlink2">>},
   gatewayBotId : {NULL, <<>>, <<" ">>, <<"b2">>, <<" ", "b2">>}]

\* C21: over every mapping table the worker produces, an upsert for a user
\* who has a row replaces the user identity, keeps the brain link and the id
\* link when the new one is null and replaces them otherwise, keeps the bot
\* id when the new one is null or blank and replaces it (by the new value
\* without the spaces around it) otherwise, and leaves every other row alone.
C21_UpsertKeepsAbsentFields ==
  \A u \in Users, npub \in {1, nextKey}, options \in UpsertOptions :
    localNpubMap[u] # NoRow =>
      LET old == localNpubMap[u]
          map == upsertLocalNpubMap(localNpubMap, u, npub, options)
          blank == options.gatewayBotId = NULL \/ trim(options.gatewayBotId) = <<>> IN
      /\ map[u].user_npub = npub
      /\ map[u].beacon_brain_npub =
           (IF options.beaconBrainNpub = NULL THEN old.beacon_brain_npub
            ELSE options.beaconBrainNpub)
      /\ map[u].beacon_id_npub =
           (IF options.beaconIdNpub = NULL THEN old.beacon_id_npub
            ELSE options.beaconIdNpub)
      /\ map[u].gateway_bot_id =
           (IF blank THEN old.gateway_bot_id ELSE trim(options.gatewayBotId))
      /\ \A v \in Users \ {u} : map[v] = localNpubMap[v]

\* two first messages of u1 were handled as interleaved tasks, one with a
\* bot id and one without: the second createNewUser upserted over the row
\* of the first, replaced the identity and left the row with the bot id
C21_Witness ==
  /\ localNpubMap["u1"] # NoRow
  /\ localNpubMap["u1"].user_npub = MaxPreKey + 2
  /\ localNpubMap["u1"].gateway_bot_id = <<"b1">>
  /\ \E t \in Tasks : task[t].pc = "done" /\ task[t].from = "u1" /\ task[t].botid = NoBot

\* a proof as the spec defines it: a string of 64 lowercase hexadecimal
\* characters
IsProof(x) ==
  /\ x.t = "str"
  /\ Len(x.v) = 64
  /\ \A i \in 1..64 : x.v[i] \in {"0", "1", "2", "3", "4", "5", "6", "7", "8", "9",
                                   "a", "b", "c", "d", "e", "f"}

RECURSIVE ProofsUnderKeys(_)
\* the proofs a tree holds under a recognized key, at any depth
ProofsUnderKeys(x) ==
  IF x.t = "obj"
  THEN UNION {(IF x.v[i][1] \in {PreimageKeys[k] : k \in 1..Len(PreimageKeys)}
                  /\ IsProof(x.v[i][2])
               THEN {x.v[i][2]} ELSE {}) \cup ProofsUnderKeys(x.v[i][2]) :
              i \in 1..Len(x.v)}
  ELSE IF x.t = "arr" THEN UNION {ProofsUnderKeys(x.v[i]) : i \in 1..Len(x.v)}
  ELSE {}

\* response trees for the proof extractor: a proof at the top, nested, in an
\* array, under each key; a short string under a recognized key, alone and
\* above a nested proof; a hexadecimal string under another key; upper case
ProofTrees ==
  LET proof == JStr(Hex64)
      short == JStr(<<"a", "b", "c">>)
      upper == JStr([i \in 1..64 |-> IF i % 2 = 1 THEN "A" ELSE "7"]) IN
  {JObj(<< <<"preimage", proof>> >>),
   JObj(<< <<"paymentPreimage", proof>> >>),
   JObj(<< <<"preImage", proof>> >>),
   JObj(<< <<"result", JObj(<< <<"preimage", proof>> >>)>> >>),
   JObj(<< <<"payments", JArr(<< JObj(<< <<"preimage", proof>> >>) >>)>> >>),
   JObj(<< <<"status", JStr(<<"o", "k">>)>> >>),
   JObj(<< <<"preimage", short>> >>),
   JObj(<< <<"preimage", short>>, <<"result", JObj(<< <<"preimage", proof>> >>)>> >>),
   JObj(<< <<"preimage", upper>> >>),
   JObj(<< <<"payment_hash", proof>> >>),
   JNull}

\* C22: for every response tree, the proof extractor returns a proof that
\* the tree holds under a recognized key when there is one, and none when
\* there is none; and the receipt of every payment reported as paid over
\* the HTTP wallet is such a proof of the response the backend gave.
C22_ProofFromRecognizedKey ==
  /\ \A tree \in PayResponses \cup ProofTrees :
       IF ProofsUnderKeys(tree) # {}
       THEN findPreimage(tree) \in ProofsUnderKeys(tree)
       ELSE findPreimage(tree) = JUndef
  /\ \A t \in Tasks :
       (/\ task[t].pc = "getBalance"
        /\ task[t].wallet # Nil
        /\ task[t].wallet.type = "api") =>
         task[t].res.receipt \in
           ProofsUnderKeys(walletCalls[t][Len(walletCalls[t]) - 1].response)

\* the status or the state field of a response is error, failed or rejected
\* in any letter case
SaysFailure(tree) ==
  \E key \in {"status", "state"} :
    Get(tree, key).t = "str" /\ toLowerCase(Get(tree, key).v) \in FalseWords

\* responses with a verdict: a failure word in status or in state, in upper
\* and mixed case, beside a proof, a payResult and a balance; a failure word
\* in state beside a status that is a number, another word, a success word
VerdictTrees ==
  LET proof == <<"preimage", JStr(Hex64)>>
      word(w) == JStr(w) IN
  {JObj(<< <<"status", word(<<"E", "R", "R", "O", "R">>)>> >>),
   JObj(<< <<"status", word(<<"F", "a", "i", "l", "e", "d">>)>>, proof >>),
   JObj(<< <<"state", word(<<"R", "E", "J", "E", "C", "T", "E", "D">>)>>, <<"payResult", JObj(<< proof >>)>> >>),
   JObj(<< <<"status", word(<<"f", "a", "i", "l", "e", "d">>)>>, <<"balance", JNum(5000)>> >>),
   JObj(<< <<"status", JNum(500)>>, <<"state", word(<<"f", "a", "i", "l", "e", "d">>)>>, proof >>),
   JObj(<< <<"status", word(<<"p", "e", "n", "d", "i", "n", "g">>)>>, <<"state", word(<<"f", "a", "i", "l", "e", "d">>)>>, <<"balance", JNum(5000)>> >>),
   JObj(<< <<"status", word(<<"o", "k">>)>>, <<"state", word(<<"f", "a", "i", "l", "e", "d">>)>> >>),
   JObj(<< <<"success", JBool(TRUE)>>, <<"status", word(<<"f", "a", "i", "l", "e", "d">>)>> >>)}

R_insufficient ==
  JObj(<< <<"status", JStr(S_error)>>, <<"reason", JStr(<<"i", "n", "s", "u", "f", "f", "i", "c", "i", "e", "n", "t", " ", "f", "u", "n", "d", "s">>)>> >>)

\* C23: every response that says failure in its status or state field and
\* has no boolean success field is interpreted as not successful, whatever
\* proof, payResult or balance it holds, and the error extractor returns
\* "insufficient funds" for {status: "error", reason: "insufficient funds"}.
C23_FailureWordIsFailure ==
  /\ \A tree \in PayResponses \cup VerdictTrees :
       (SaysFailure(tree) /\ Get(tree, "success").t # "bool") =>
         (findSuccessFlag(tree) = JBool(FALSE)
            /\ ~interpretNwcliPaymentResponse(tree).success)
  /\ extractErrorMessage(R_insufficient) = JStr(<<"i", "n", "s", "u", "f", "f", "i", "c", "i", "e", "n", "t", " ", "f", "u", "n", "d", "s">>)
  /\ \A t \in Tasks :
       (/\ task[t].pc = "getBalance"
        /\ task[t].wallet # Nil
        /\ task[t].wallet.type = "api") =>
         ~SaysFailure(walletCalls[t][Len(walletCalls[t]) - 1].response)

\* response objects for the error extractor: each key alone, two keys in
\* either field order, an empty, a blank and a non-string value before a
\* message, a padded message, an error status alone, in upper case, beside a
\* nested message, another status beside a nested message, two nested
\* objects, a message inside an array element, a nested error status,
\* nothing to report
ErrorTrees ==
  LET S(w) == JStr(w) IN
  {JObj(<< <<"error", S(<<"e", "1">>)>>, <<"message", S(<<"m", "1">>)>> >>),
   JObj(<< <<"message", S(<<"m", "1">>)>>, <<"error", S(<<"e", "1">>)>> >>),
   JObj(<< <<"reason", S(<<"r", "1">>)>> >>),
   JObj(<< <<"description", S(<<"d", "2">>)>>, <<"detail", S(<<"d", "1">>)>> >>),
   JObj(<< <<"error", S(<<>>)>>, <<"message", S(<<"m", "1">>)>> >>),
   JObj(<< <<"error", S(<<" ">>)>>, <<"message", S(<<"m", "1">>)>> >>),
   JObj(<< <<"error", JNum(5)>>, <<"detail", S(<<"d", "1">>)>> >>),
   JObj(<< <<"message", S(<<" ">> \o <<"m", "1">> \o <<" ">>)>> >>),
   JObj(<< <<"status", S(S_error)>> >>),
   JObj(<< <<"status", S(<<"E", "R", "R", "O", "R">>)>> >>),
   JObj(<< <<"status", S(S_error)>>, <<"data", JObj(<< <<"message", S(<<"m", "1">>)>> >>)>> >>),
   JObj(<< <<"status", S(<<"o", "k">>)>>, <<"data", JObj(<< <<"message", S(<<"m", "1">>)>> >>)>> >>),
   JObj(<< <<"data", JObj(<< <<"x", JObj(<< <<"reason", S(<<"r", "1">>)>> >>)>> >>)>>,
           <<"other", JObj(<< <<"error", S(<<"e", "1">>)>> >>)>> >>),
   JObj(<< <<"errors", JArr(<< S(<<"e", "1">>), JObj(<< <<"message", S(<<"m", "1">>)>> >>) >>)>> >>),
   JObj(<< <<"data", JNull>>, <<"x", JObj(<< <<"status", S(S_error)>> >>)>> >>),
   JObj(<< <<"status", S(<<"o", "k">>)>>, <<"note", S(<<"m", "1">>)>> >>)}

RECURSIVE StatedError(_, _)
\* the error message as C24 states it, for an object or an array: the
\* first string among the five fields that counts (non-empty, or non-blank
\* when blankSkipped), else the fallback for an error status, else the first
\* message found in an object-valued field
StatedError(tree, blankSkipped) ==
  LET keys == <<"error", "message", "reason", "detail", "description">>
      counts(x) == /\ x.t = "str"
                   /\ IF blankSkipped THEN trim(x.v) # <<>> ELSE x.v # <<>>
      named == {k \in 1..5 : counts(Get(tree, keys[k]))}
      values == Values(tree)
      nested == {i \in 1..Len(values) :
                   IsObject(values[i]) /\ StatedError(values[i], blankSkipped) # JNull} IN
  IF named # {}
  THEN Get(tree, keys[CHOOSE k \in named : \A j \in named : k <= j])
  ELSE IF Get(tree, "status").t = "str" /\ toLowerCase(Get(tree, "status").v) = S_error
       THEN JStr(<<"Remote wallet API reported an error status.">>)
  ELSE IF nested # {}
       THEN StatedError(values[CHOOSE i \in nested : \A j \in nested : i <= j], blankSkipped)
  ELSE JNull

\* the extractor agrees with C24 as amended on every tree of the sample
ErrorTreesAsAmended ==
  \A tree \in PayResponses \cup ErrorTrees :
    extractErrorMessage(tree) = StatedError(tree, TRUE)

\* the message of every payment that the HTTP wallet answered and that was
\* interpreted as failed is the stated message of the answer, or "Payment
\* was rejected or failed." when there is none
FailureTextAsStated(blankSkipped) ==
  \A t \in Tasks :
    (/\ task[t].pc = "sendPaymentConfirmation"
     /\ task[t].wallet # Nil
     /\ task[t].wallet.type = "api"
     /\ Settled(walletCalls[t], "ok")
     /\ walletCalls[t][Len(walletCalls[t])].call \in {"payInvoice", "payLnAddress"}) =>
      LET stated == StatedError(walletCalls[t][Len(walletCalls[t])].response,
                                blankSkipped) IN
      task[t].res.error.message =
        (IF stated # JNull THEN stated ELSE Text("Payment was rejected or failed."))

\* C24 as stated: for every response object the error extractor returns the
\* first non-empty string among error, message, reason, detail, description
\* in that order, else the generic message when its status is "error" in any
\* letter case, else the first message found in an object-valued field, or
\* none; the text of a failed payment is that message.
C24_FirstNonEmptyString ==
  /\ FailureTextAsStated(FALSE)
  /\ \A tree \in PayResponses \cup ErrorTrees :
       extractErrorMessage(tree) = StatedError(tree, FALSE)

\* C24, amended: the same with the first string that is not blank (not empty
\* after trimming), returned as it stands.
C24_FirstNonBlankString ==
  /\ ErrorTreesAsAmended
  /\ FailureTextAsStated(TRUE)

\* the HTTP wallet answered {status: "error", reason: "no funds"} and the
\* payment failed with the text of the reason field
C24_Witness ==
  \E t \in Tasks :
    /\ task[t].pc = "sendPaymentConfirmation"
    /\ task[t].wallet # Nil
    /\ task[t].wallet.type = "api"
    /\ Settled(walletCalls[t], "ok")
    /\ task[t].res.error.message = Get(R_error, "reason")

\* ---------------------------------------------------------------- C25
\* a numeric value: a number, or a string of digits
IsNumeric(value) ==
  \/ value.t = "num"
  \/ value.t = "str" /\ trim(value.v) # <<>> /\ ToNumber(value.v) # JUndef

NumericValue(value) == IF value.t = "num" THEN value ELSE ToNumber(value.v)

RECURSIVE QualifyingValues(_)
RECURSIVE QualifyingIn(_, _)
\* how many numeric values sit under a recognized balance key, directly or
\* below a chain of data, context, result or in an element of a balances array
QualifyingValues(tree) ==
  IF ~IsObject(tree) THEN 0
  ELSE Cardinality({key \in {"balanceMsats", "balance_msats", "msats", "amountMsats",
                             "balance"} : IsNumeric(Get(tree, key))})
       + QualifyingIn(
           <<Get(tree, "data"), Get(tree, "context"), Get(tree, "result")>>
           \o (IF Get(tree, "balances").t = "arr" THEN Get(tree, "balances").v ELSE <<>>),
           1)

QualifyingIn(places, i) ==
  IF i > Len(places) THEN 0
  ELSE QualifyingValues(places[i]) + QualifyingIn(places, i + 1)

RECURSIVE StatedMsats(_)
RECURSIVE StatedMsatsIn(_, _)
\* the qualifying value that wins as C25 states it: the first direct key in
\* key order, then the first nesting key in key order, then the first
\* element of the balances array; JNull when no value qualifies
StatedMsats(tree) ==
  IF ~IsObject(tree) THEN JNull
  ELSE LET direct ==
             FirstIndex(<<"balanceMsats", "balance_msats", "msats", "amountMsats", "balance">>,
                        LAMBDA key : IsNumeric(Get(tree, key))) IN
       IF direct # 0
       THEN NumericValue(Get(tree, <<"balanceMsats", "balance_msats", "msats",
                                     "amountMsats", "balance">>[direct]))
       ELSE StatedMsatsIn(
              <<Get(tree, "data"), Get(tree, "context"), Get(tree, "result")>>
              \o (IF Get(tree, "balances").t = "arr" THEN Get(tree, "balances").v ELSE <<>>),
              1)

StatedMsatsIn(places, i) ==
  IF i > Len(places) THEN JNull
  ELSE LET msats == StatedMsats(places[i]) IN
       IF msats # JNull THEN msats ELSE StatedMsatsIn(places, i + 1)

\* balance answers: a value under each kind of place, several values under
\* direct and nesting keys, values that are no numbers before one that is
BalanceTrees ==
  {JObj(<< <<"balance", JNum(5000)>> >>),
   JObj(<< <<"balanceMsats", JStr(<<"1", "2">>)>> >>),
   JObj(<< <<"data", JObj(<< <<"context", JObj(<< <<"result",
             JObj(<< <<"msats", JNum(5000)>> >>)>> >>)>> >>)>> >>),
   JObj(<< <<"balances", JArr(<<JObj(<< <<"id", JNum(1)>> >>),
                                JObj(<< <<"balance_msats", JNum(6000)>> >>)>>)>> >>),
   JObj(<< <<"data", JObj(<< <<"balances",
             JArr(<<JObj(<< <<"amountMsats", JNum(9000)>> >>)>>)>> >>)>> >>),
   JObj(<< <<"data", JObj(<< <<"balance", JNum(1000)>> >>)>>, <<"balance", JNum(2000)>> >>),
   JObj(<< <<"balance", JNum(2000)>>, <<"balanceMsats", JNum(1000)>> >>),
   JObj(<< <<"result", JObj(<< <<"balance", JNum(1000)>> >>)>>,
           <<"data", JObj(<< <<"balance", JNum(2000)>> >>)>> >>),
   JObj(<< <<"amountMsats", JNull>>, <<"balance", JNum(3000)>> >>),
   JObj(<< <<"balanceMsats", JStr(<<"n", "/", "a">>)>>, <<"balance", JNum(3000)>> >>),
   JObj(<< <<"status", JStr(<<"o", "k">>)>> >>),
   JObj(<< <<"balanceMsats", JStr(<<>>)>>, <<"balance", JNum(5000)>> >>),
   JObj(<< <<"balanceMsats", JStr(<<>>)>>, <<"msats", JNum(4000)>>,
           <<"balance", JNum(5000)>> >>),
   JObj(<< <<"balanceMsats", JObj(<< <<"msats", JNum(3000)>> >>)>>,
           <<"msats", JNum(4000)>>, <<"balance", JNum(5000)>> >>)}

\* C25: for every response in which a numeric value sits under a recognized
\* balance key, directly or below a chain of data, context, result or in an
\* element of a balances array, the balance extractor returns a value, and
\* when several values qualify it returns the one of the first direct key in
\* key order, a direct key before a nesting key; the balance a payment
\* records is extracted from the balance answer that way.
C25_BalanceFound ==
  /\ \A t \in Tasks :
       (task[t].snap # Nil /\ task[t].snap.balanceMsats # JNull) =>
         \E response \in BalanceResponses :
           task[t].snap.balanceMsats = StatedMsats(response)
  /\ \A tree \in BalanceResponses \cup BalanceTrees :
       /\ QualifyingValues(tree) > 0 => extractMsats(tree) # JNull
       /\ QualifyingValues(tree) > 1 => extractMsats(tree) = StatedMsats(tree)

\* ---------------------------------------------------------------- C26
\* the store holds the record of request id
Holds(store, id) == \E u \in Users : store[u] # Nil /\ store[u].id = id

\* C26: the pending payment is removed from the store before its dispatch
\* begins: in every state in which a callback holds a record it dispatched
\* (in flight or finished), and for every request that was ever handed to
\* makePayment, the store no longer holds that record; the step that starts
\* a dispatch is the step that removes the record.
C26_ClearedBeforeDispatch ==
  /\ \A t \in Tasks : task[t].pay # Nil => ~Holds(pendingStore, task[t].pay.id)
  /\ \A id \in 1..MaxRequests : makePaymentCalls[id] > 0 => ~Holds(pendingStore, id)

\* the dispatch of the one request finished with a payment, and the store
\* holds nothing for its user
C26_Witness ==
  \E t \in Tasks :
    /\ task[t].pc = "done"
    /\ task[t].pay # Nil
    /\ task[t].res # Nil
    /\ task[t].res.success
    /\ makePaymentCalls[task[t].pay.id] = 1
    /\ pendingStore[task[t].from] = Nil

\* ---------------------------------------------------------------- C27
\* a message to the user that states the outcome of a payment
OutcomeMessages(out) == {i \in 1..Len(out) : out[i].body \in {Confirmed, PaymentFailed}}

\* C27: a restart while a callback is suspended inside makePayment, after
\* the pending payment was cleared, loses the request: the callback had
\* reported nothing yet, and from the restart on the store holds no record
\* of the request, no callback holds it, no message to the user and no
\* notification states its outcome, and it is never handed to makePayment
\* again.
C27_CrashLosesRequest ==
  [][/\ \A t \in Tasks :
          (crashes' = crashes + 1 /\ InMakePayment(t)) =>
            /\ task[t].pay.id \in interrupted'
            /\ ~Holds(pendingStore, task[t].pay.id)
            /\ OutcomeMessages(identityOut[t]) = {}
            /\ PaymentNotes(cvmLog[t]) = {}
     /\ \A id \in interrupted' :
          /\ ~Holds(pendingStore', id)
          /\ \A t \in Tasks : task'[t].pay = Nil \/ task'[t].pay.id # id
          /\ makePaymentCalls'[id] = 1
     /\ \A t \in Tasks :
          task'[t].pay = Nil =>
            /\ OutcomeMessages(identityOut'[t]) = {}
            /\ PaymentNotes(cvmLog'[t]) = {}]_vars

\* after a restart that cut a dispatch off, the user said "yes" again and
\* the callback returned without a record, a message or a notification
C27_Witness ==
  \E t \in Tasks :
    /\ crashes = 1
    /\ interrupted # {}
    /\ task[t].pc = "done"
    /\ toLowerCase(trim(task[t].text)) = S_yes
    /\ task[t].pay = Nil
    /\ identityOut[t] = <<>>
    /\ cvmLog[t] = <<>>
    /\ pendingStore[task[t].from] = Nil

\* ---------------------------------------------------------------- C28
\* how far the onboarding of user u is: 0 before the first contact, 4 when
\* the entry of a user with a mapping row is deleted
StepRank(states, map, u) ==
  IF states[u] = Nil THEN (IF map[u] = NoRow THEN 0 ELSE 4)
  ELSE IF states[u].step = "awaiting_choice" THEN 1
  ELSE IF states[u].step = "awaiting_nwc" THEN 2
  ELSE 3

\* the step is the fallback of the catch block of handleGenerateWallet
IsGenerateFallback(u) ==
  \E t \in Tasks :
    /\ task[t].from = u
    /\ Len(consoleError'[t]) = Len(consoleError[t]) + 1
    /\ consoleError'[t][Len(consoleError'[t])].context = "Failed to generate API wallet"
    /\ InStep(onboardingState'[u], "awaiting_choice")

\* C28: for each user, in every step of every interleaving of callbacks, the
\* onboarding step stays or moves forward along awaiting_choice,
\* awaiting_nwc, awaiting_ln_address, completed (entry deleted), and an
\* entry that stays keeps its identity; the only backward move is the
\* fallback to awaiting_choice after an error.
C28_StepOnlyForward ==
  [][\A u \in Users :
       /\ (onboardingState[u] # Nil /\ onboardingState'[u] # Nil) =>
            onboardingState'[u].npub = onboardingState[u].npub
       /\ \/ StepRank(onboardingState', localNpubMap', u)
               >= StepRank(onboardingState, localNpubMap, u)
          \/ IsGenerateFallback(u)]_vars

\* ---------------------------------------------------------------- C29
\* C29: however the callbacks of the first messages of one unknown user
\* interleave, at most one identity is allocated for that user (the one
\* unknown user of the model is the only one createNewUser runs for, so at
\* most one key beyond the initial ones is generated), and in every state
\* the identity in the user's onboarding state is the identity in the user's
\* mapping row.
C29_OneProvisionalIdentity ==
  /\ nextKey <= MaxPreKey + 2
  /\ \A u \in Users :
       onboardingState[u] # Nil =>
         /\ localNpubMap[u] # NoRow
         /\ onboardingState[u].npub = localNpubMap[u].user_npub

\* ---------------------------------------------------------------- C30
\* the callbacks of user u that entered finishOnboarding
Finishing(u) ==
  {t \in Tasks : task[t].from = u /\ \E i \in 1..Len(cvmLog[t]) : cvmLog[t][i].kind = "new_user"}

\* the callbacks of user u whose sub-account was provisioned
Provisioned(u) ==
  {t \in Tasks : /\ task[t].from = u
                 /\ \E i \in 1..Len(walletCalls[t]) :
                      /\ walletCalls[t][i].call = "createSubAccount"
                      /\ walletCalls[t][i].result = "ok"}

\* the callbacks of user u that sent the closing message
Closed(u) ==
  {t \in Tasks : /\ task[t].from = u
                 /\ \E i \in 1..Len(identityOut[t]) : identityOut[t][i].body = Completion}

\* C30: for each user, over every interleaving of the user's callbacks,
\* onboarding completes at most once: at most one sub-account is
\* provisioned, at most one new-user notification and one closing message
\* are sent, and once a callback has sent the closing message the user has
\* no onboarding state entry again.
C30_CompletesOnce ==
  \A u \in Users :
    /\ Cardinality(Provisioned(u)) <= 1
    /\ Cardinality(Finishing(u)) <= 1
    /\ Cardinality(Closed(u)) <= 1
    /\ Closed(u) # {} => onboardingState[u] = Nil

\* ---------------------------------------------------------------- C31
\* C31: while a user has an onboarding state entry, the step that handles a
\* message of that user never is a step of the approval gate: the pending
\* store and the dispatch counts stay as they are, the callback holds no
\* payment, and a non-blank text (a "yes" included) is consumed by
\* handleOnboarding, which read the state entry.
C31_OnboardingShieldsApproval ==
  [][\A t \in Tasks :
       LET u == task[t].from IN
       ( /\ task[t].pc = "received"
         /\ task'[t].pc # "received"
         /\ onboardingState[u] # Nil ) =>
         /\ pendingStore' = pendingStore
         /\ makePaymentCalls' = makePaymentCalls
         /\ task'[t].pay = Nil
         /\ trim(task[t].text) # NoText => task'[t].st = onboardingState[u]]_vars

\* a "yes" of a user in onboarding was handled while a payment request of
\* that user is pending: the request is still in the store, undispatched
C31_Witness ==
  \E t \in Tasks :
    /\ task[t].pc = "done"
    /\ isYes(trim(task[t].text))
    /\ task[t].st # Nil
    /\ task[t].pay = Nil
    /\ pendingStore[task[t].from] # Nil
    /\ makePaymentCalls[pendingStore[task[t].from].id] = 0

\* ---------------------------------------------------------------- C32
\* callback t dispatched a well-formed request over the HTTP wallet and its
\* pay call was issued
PaysOverApi(t) ==
  /\ task[t].pay # Nil
  /\ task[t].wallet # Nil
  /\ task[t].wallet.type = "api"
  /\ ~(task[t].pay.type = "ln_address" /\ MissingDetails(task[t].pay))
  /\ task[t].pc \in {"apiPay", "getBalance", "sendPaymentConfirmation", "done"}

PayCalls(log) == {i \in 1..Len(log) : log[i].call \in {"payInvoice", "payLnAddress"}}

\* C32: on the HTTP-wallet path with a well-formed request the pay call is
\* issued exactly once, as the third remote call, after the ledger refresh
\* and the balance snapshot were attempted and settled, each with success or
\* with failure; the success value of the outcome is the verdict on the
\* answer of the pay call, whatever the two earlier calls did.
C32_BestEffortBeforePay ==
  \A t \in Tasks :
    PaysOverApi(t) =>
      LET calls == walletCalls[t] IN
      /\ Len(calls) >= 3
      /\ calls[1].call = "refreshLedger" /\ calls[1].result \in {"ok", "failed"}
      /\ calls[2].call = "fetchBalance" /\ calls[2].result \in {"ok", "failed"}
      /\ PayCalls(calls) = {3}
      /\ task[t].pc # "apiPay" =>
           /\ task[t].res # Nil
           /\ task[t].res.success =
                ( /\ calls[3].result = "ok"
                  /\ interpretNwcliPaymentResponse(calls[3].response).success )

\* the refresh and the snapshot both failed and the payment was made
C32_Witness ==
  \E t \in Tasks :
    /\ PaysOverApi(t)
    /\ task[t].pc = "getBalance"
    /\ walletCalls[t][1].result = "failed"
    /\ walletCalls[t][2].result = "failed"
    /\ walletCalls[t][3].result = "ok"
    /\ task[t].res.success

\* ---------------------------------------------------------------- C33
\* the remote calls of a dispatch
DispatchCalls ==
  {"refreshLedger", "fetchBalance", "lnurlParams", "lnurlCallback", "payInvoice",
   "payLnAddress"}

\* C33: the calls a callback issued hold at most one pay call, whatever its
\* result, and each remote call of the dispatch (ledger refresh, balance
\* snapshot, the two discovery fetches, the pay call) at most once; after a
\* failed discovery fetch or pay call the dispatch issues no further call;
\* and the approval handler hands no request to makePayment twice.
C33_NoRetry ==
  /\ \A id \in 1..MaxRequests : makePaymentCalls[id] <= 1
  /\ \A t \in Tasks :
       LET calls == walletCalls[t] IN
       /\ Cardinality(PayCalls(calls)) <= 1
       /\ \A i, j \in 1..Len(calls) :
            (calls[i].call \in DispatchCalls /\ calls[i].call = calls[j].call) => i = j
       /\ \A i \in 1..Len(calls) :
            ( /\ calls[i].call \in DispatchCalls \ {"refreshLedger", "fetchBalance"}
              /\ calls[i].result = "failed" ) => i = Len(calls)

\* a callback returned after a pay call that failed, which followed a failed
\* ledger refresh: each was issued once
C33_Witness ==
  \E t \in Tasks :
    /\ task[t].pc = "done"
    /\ task[t].res # Nil
    /\ ~task[t].res.success
    /\ Len(walletCalls[t]) = 3
    /\ walletCalls[t][1].call = "refreshLedger"
    /\ walletCalls[t][1].result = "failed"
    /\ walletCalls[t][3].call \in {"payInvoice", "payLnAddress"}
    /\ walletCalls[t][3].result = "failed"

\* ---------------------------------------------------------------- C34
\* the summary as C34 states it, in display units (minor units floor-divided
\* by 1000): available, balance, pending, request, each omitted when its
\* value is unknown; pendingAsZero tells whether an unknown pending amount
\* counts as 0 in the available amount
StatedInsight(balanceMsats, pendingMsats, requestMsats, pendingAsZero) ==
  LET known(x) == x # JNull
      pending == IF known(pendingMsats) THEN pendingMsats.v ELSE 0
      rest == IF known(balanceMsats) THEN balanceMsats.v - pending ELSE 0 IN
  (IF known(balanceMsats) /\ (known(pendingMsats) \/ pendingAsZero)
   THEN <<<<"available", (IF rest > 0 THEN rest ELSE 0) \div 1000>>>> ELSE <<>>)
  \o (IF known(balanceMsats) THEN <<<<"balance", balanceMsats.v \div 1000>>>> ELSE <<>>)
  \o (IF known(pendingMsats) THEN <<<<"pending", pendingMsats.v \div 1000>>>> ELSE <<>>)
  \o (IF known(requestMsats) THEN <<<<"request", requestMsats.v \div 1000>>>> ELSE <<>>)

\* amounts in minor units: unknown, below one unit, between units, whole units
InsightAmounts == {JNull, JNum(0), JNum(999), JNum(1999), JNum(2500), JNum(7000)}

\* buildBalanceInsight is the stated summary for every choice of amounts,
\* an unknown pending amount counting as 0
InsightAsAmended ==
  \A b, p, r \in InsightAmounts :
    buildBalanceInsight(b, p, r) = StatedInsight(b, p, r, TRUE)

\* the error of every payment that failed after its pay call over the HTTP
\* wallet settled: the message of the backend, then the stated summary of
\* the snapshot of that callback
FailureSummaryAsStated(pendingAsZero) ==
  \A t \in Tasks :
    ( /\ PaysOverApi(t)
      /\ task[t].pc \in {"sendPaymentConfirmation", "done"}
      /\ task[t].res # Nil
      /\ ~task[t].res.success ) =>
      LET paid == walletCalls[t][3] IN
      /\ task[t].res.error.insight =
           StatedInsight(task[t].snap.balanceMsats, task[t].snap.pendingMsats,
                         RequestMsats(task[t].pay), pendingAsZero)
      /\ task[t].res.error.message \in
           (IF paid.result = "ok"
            THEN {OrElse(extractErrorMessage(paid.response),
                         "Payment was rejected or failed.")}
            ELSE {OrElse(extractMessageFromError(error), "An unknown error occurred.") :
                    error \in PayErrors})
      /\ \E i \in 1..Len(identityOut[t]) :
           /\ identityOut[t][i].body = PaymentFailed
           /\ identityOut[t][i].error = task[t].res.error

\* C34 as stated: on the HTTP-wallet path the error of a failed payment is
\* the backend's message followed by the summary of the pre-payment
\* snapshot: available = max(balance - pending, 0), balance, pending and the
\* requested amount, each floor-divided by 1000, a part whose value is
\* unknown omitted (the available amount too when the pending amount is
\* unknown), and nothing appended when no part is known.
C34_SummaryOfKnownParts ==
  /\ FailureSummaryAsStated(FALSE)
  /\ \A b, p, r \in InsightAmounts :
       buildBalanceInsight(b, p, r) = StatedInsight(b, p, r, FALSE)

\* C34, amended: the same, with the available amount present whenever the
\* balance is known, an unknown pending amount counting as 0.
C34_SummaryPendingAsZero ==
  /\ InsightAsAmended
  /\ FailureSummaryAsStated(TRUE)

\* a payment failed after a snapshot of balance 7000 and pending 2500 minor
\* units: the summary says available 4, balance 7, pending 2
C34_Witness ==
  \E t \in Tasks :
    /\ PaysOverApi(t)
    /\ task[t].res # Nil
    /\ ~task[t].res.success
    /\ Len(task[t].res.error.insight) = 4
    /\ task[t].res.error.insight[1] = <<"available", 4>>
    /\ task[t].res.error.insight[2] = <<"balance", 7>>
    /\ task[t].res.error.insight[3] = <<"pending", 2>>

\* ---------------------------------------------------------------- C35
\* C35: in the step in which the sub-account request of a reply "2" (read in
\* awaiting_choice or in awaiting_nwc) fails, the wallet table stays as it
\* is, no notification is sent, the callback sends the apology and then the
\* two-option prompt, and the user's state becomes awaiting_choice with the
\* identity of the state the callback read.
C35_ProvisioningFailureFallsBack ==
  [][\A t \in Tasks :
       LET u == task[t].from IN
       ( /\ task[t].pc = "createSubAccount"
         /\ task'[t].pc = "done"
         /\ Settled(walletCalls'[t], "failed") ) =>
         /\ task[t].st.step \in {"awaiting_choice", "awaiting_nwc"}
         /\ userWallets' = userWallets
         /\ cvmLog'[t] = cvmLog[t]
         /\ identityOut'[t] =
              identityOut[t] \o <<Msg(u, GenerateFailed), Msg(u, PromptChoice)>>
         /\ onboardingState'[u] = Step("awaiting_choice", task[t].st.npub)]_vars

\* a reply "2" read in awaiting_nwc ended with a failed sub-account request:
\* no wallet row, the apology and the prompt, back in awaiting_choice
C35_Witness ==
  \E t \in Tasks :
    /\ task[t].pc = "done"
    /\ task[t].st # Nil
    /\ task[t].st.step = "awaiting_nwc"
    /\ Settled(walletCalls[t], "failed")
    /\ walletCalls[t][Len(walletCalls[t])].call = "createSubAccount"
    /\ userWallets[task[t].st.npub] = NoRow
    /\ identityOut[t] = <<Msg(task[t].from, GenerateFailed), Msg(task[t].from, PromptChoice)>>
    /\ onboardingState[task[t].from] = Step("awaiting_choice", task[t].st.npub)

\* ---------------------------------------------------------------- C36
\* C36: every new-user notification a callback sent names an identity that
\* has a wallet row, of the protocol or of the HTTP kind, in every run, the
\* runs in which a wallet save raised a storage error included.
C36_NotifiedUserHasWallet ==
  \A t \in Tasks :
    \A i \in 1..Len(cvmLog[t]) :
      cvmLog[t][i].kind = "new_user" =>
        /\ userWallets[cvmLog[t][i].npub] # NoRow
        /\ userWallets[cvmLog[t][i].npub].wallet_type \in {"nwc", "api"}

\* ---------------------------------------------------------------- C37
\* the outcome of request id was reported: a callback holding it has written
\* the message to the user and sent the payment-outcome notification
Reported(id) ==
  \E t \in Tasks :
    /\ task[t].pay # Nil
    /\ task[t].pay.id = id
    /\ OutcomeMessages(identityOut[t]) # {}
    /\ PaymentNotes(cvmLog[t]) # {}

\* C37: when a "yes" found a pending payment and every remote call of the
\* dispatch returned or failed, the handler sends the user a confirmation or
\* a failure message and the payment-outcome notification; nothing is sent
\* once the callback has returned, so every callback that took a pending
\* payment and returned has reported it.
C37_ReturnedHasReported ==
  \A t \in Tasks :
    (task[t].pc = "done" /\ task[t].pay # Nil) => Reported(task[t].pay.id)

\* ---------------------------------------------------------------- C38
\* C38: the step that handles a message of a user who has a mapping row and
\* no onboarding state entry, and whose trimmed text is empty or is not
\* "yes" in any letter case, is the end of its callback and leaves the
\* pending store, the onboarding map, the wallet table, the dispatch counts,
\* the outbound messages, the notifications and the remote calls as they
\* are.
C38_OtherTextChangesNothing ==
  [][\A t \in Tasks :
       LET u == task[t].from IN
       ( /\ task[t].pc = "received"
         /\ task'[t].pc # "received"
         /\ localNpubMap[u] # NoRow
         /\ onboardingState[u] = Nil
         /\ toLowerCase(trim(task[t].text)) # S_yes ) =>
         /\ task'[t].pc = "done"
         /\ task'[t].pay = Nil
         /\ pendingStore' = pendingStore
         /\ onboardingState' = onboardingState
         /\ userWallets' = userWallets
         /\ makePaymentCalls' = makePaymentCalls
         /\ identityOut' = identityOut
         /\ cvmLog' = cvmLog
         /\ walletCalls' = walletCalls]_vars

\* a text other than "yes" of a known user outside onboarding was handled
\* while a payment of that user is pending: the payment is still pending
C38_Witness ==
  \E t \in Tasks :
    /\ task[t].pc = "done"
    /\ trim(task[t].text) # NoText
    /\ toLowerCase(trim(task[t].text)) # S_yes
    /\ task[t].st = Nil
    /\ localNpubMap[task[t].from] # NoRow
    /\ onboardingState[task[t].from] = Nil
    /\ identityOut[t] = <<>>
    /\ pendingStore[task[t].from] # Nil
    /\ makePaymentCalls[pendingStore[task[t].from].id] = 0

\* ---------------------------------------------------------------- C39
\* a word of the affirmative or of the negative set, in any letter case
RecognizedWord(value) ==
  value.t = "str" /\ toLowerCase(value.v) \in TrueWords \cup FalseWords

WordVerdict(value) == JBool(toLowerCase(value.v) \in TrueWords)

\* the first step as stated: a boolean, a recognized word, the boolean
\* success field, a recognized word in status, a recognized word in state,
\* and then what the nested values give
StatedFlag(tree) ==
  IF tree.t = "bool" THEN tree
  ELSE IF RecognizedWord(tree) THEN WordVerdict(tree)
  ELSE IF ~IsObject(tree) THEN JUndef
  ELSE IF Get(tree, "success").t = "bool" THEN Get(tree, "success")
  ELSE IF RecognizedWord(Get(tree, "status")) THEN WordVerdict(Get(tree, "status"))
  ELSE IF RecognizedWord(Get(tree, "state")) THEN WordVerdict(Get(tree, "state"))
  ELSE findSuccessFlagIn(Values(tree), 1)

RECURSIVE HoldsPayResult(_)
\* a payResult field anywhere in the tree
HoldsPayResult(tree) ==
  /\ IsObject(tree)
  /\ \/ Has(tree, "payResult")
     \/ \E i \in 1..Len(Values(tree)) : HoldsPayResult(Values(tree)[i])

\* the verdict in the stated order: flag, payResult, balance, proof
StatedVerdict(tree) ==
  LET flag == StatedFlag(tree)
      msats == extractMsats(tree) IN
  IF flag # JUndef THEN flag.v
  ELSE IF HoldsPayResult(tree) THEN TRUE
  ELSE IF msats # JNull /\ msats.v >= 0 THEN TRUE
  ELSE ~Falsy(findPreimage(tree))

\* JSON values of every kind; a flag beside a payResult, a balance and a
\* proof; a payResult at the top, under result, inside an array element,
\* empty, and null; a balance of zero, a negative one alone and beside a
\* proof; a proof alone; nothing
VerdictOrderTrees ==
  LET proof == <<"preimage", JStr(Hex64)>>
      failed == JStr(<<"f", "a", "i", "l", "e", "d">>) IN
  {JNull, JNum(5), JBool(TRUE), JBool(FALSE), JStr(<<"p", "a", "i", "d">>),
   JStr(<<"x">>), JArr(<< >>), JObj(<< >>),
   JObj(<< <<"success", JBool(FALSE)>>, <<"payResult", JObj(<< >>)>>,
           <<"balance", JNum(5000)>>, proof >>),
   JObj(<< <<"success", JBool(TRUE)>>, <<"status", failed>> >>),
   JObj(<< <<"status", failed>>, <<"payResult", JObj(<< >>)>>, proof >>),
   JObj(<< <<"state", failed>>, <<"balance", JNum(5000)>> >>),
   JObj(<< <<"payResult", JObj(<< >>)>> >>),
   JObj(<< <<"result", JObj(<< <<"payResult", JObj(<< >>)>> >>)>> >>),
   JObj(<< <<"data", JArr(<< JObj(<< <<"payResult", JObj(<< <<"x", JNum(1)>> >>)>> >>) >>)>> >>),
   JObj(<< <<"payResult", JNull>> >>),
   JObj(<< <<"balance", JNum(0)>> >>),
   JObj(<< <<"balance", JNum(0 - 5)>> >>),
   JObj(<< <<"balance", JNum(0 - 5)>>, proof >>),
   JObj(<< proof >>),
   JObj(<< <<"note", JStr(<<"h", "i">>)>> >>)}

VerdictAsStated ==
  \A tree \in PayResponses \cup VerdictOrderTrees :
    interpretNwcliPaymentResponse(tree).success = StatedVerdict(tree)

\* C39: every JSON value gets a boolean verdict, which is the explicit
\* boolean or the recognized status word when there is one, else success
\* when a payResult field is anywhere in the tree, else success when a
\* non-negative balance can be extracted, else the presence of a proof; and
\* every payment reported as paid over the HTTP wallet has a response whose
\* verdict in that order is success.
C39_VerdictInFallbackOrder ==
  /\ VerdictAsStated
  /\ \A t \in Tasks :
       (/\ task[t].pc = "getBalance"
        /\ task[t].wallet # Nil
        /\ task[t].wallet.type = "api") =>
         StatedVerdict(walletCalls[t][Len(walletCalls[t]) - 1].response)

\* ---------------------------------------------------------------- C40
\* wallet_manager.ts looksLikeInvoice
looksLikeInvoice(value) ==
  /\ value.t = "str"
  /\ Len(value.v) > 10
  /\ toLowerCase(SubSeq(value.v, 1, 2)) = <<"l", "n">>

InvoiceKeys == <<"invoice", "pr", "paymentRequest", "bolt11">>

RECURSIVE extractInvoiceFromResponse(_)
RECURSIVE extractInvoiceIn(_, _)
\* wallet_manager.ts extractInvoiceFromResponse: JStr(..) or JNull
extractInvoiceFromResponse(response) ==
  IF looksLikeInvoice(response) THEN response
  ELSE IF Falsy(response) \/ ~IsObject(response) THEN JNull
  ELSE LET LooksAt(key) == looksLikeInvoice(Get(response, key))
           k == FirstIndex(InvoiceKeys, LooksAt) IN
       IF k # 0 THEN Get(response, InvoiceKeys[k])
       ELSE extractInvoiceIn(Values(response), 1)

\* for (const value of Object.values(response)) ...
extractInvoiceIn(values, i) ==
  IF i > Len(values) THEN JNull
  ELSE IF looksLikeInvoice(values[i]) THEN values[i]
  ELSE LET nested == IF ~Falsy(values[i]) /\ IsObject(values[i])
                     THEN extractInvoiceFromResponse(values[i])
                     ELSE JNull IN
       IF nested # JNull THEN nested ELSE extractInvoiceIn(values, i + 1)

\* the deepest nesting of the sample inputs
MaxNest == 6

RECURSIVE Nest(_, _)
\* value under n objects: {data: {data: ... value}}
Nest(value, n) ==
  IF n = 0 THEN value ELSE JObj(<< <<"data", Nest(value, n - 1)>> >>)

L_invoice == JStr(<<"l", "n", "b", "c", "1", "0", "0", "n", "1", "p", "x">>)

\* the extractor finds nothing in the tree
NoProofFound(tree) == findPreimage(tree) = JUndef
NoFlagFound(tree) == findSuccessFlag(tree) = JUndef /\ ~hasPayResult(tree)
NoInvoiceFound(tree) == extractInvoiceFromResponse(tree) = JNull
NoErrorFound(tree) == extractErrorMessage(tree) = JNull
NoAmountFound(tree) == extractMsats(tree) = JNull /\ extractPendingMsats(tree) = JNull

\* some cap below MaxNest past which the extractor finds nothing in leaf
CappedOn(leaf, Nothing(_)) ==
  \E cap \in 1..(MaxNest - 1) :
    \A depth \in (cap + 1)..MaxNest : Nothing(Nest(leaf, depth))

ExtractorsCapped ==
  /\ CappedOn(JObj(<< <<"preimage", JStr(Hex64)>> >>), NoProofFound)
  /\ CappedOn(JObj(<< <<"success", JBool(TRUE)>> >>), NoFlagFound)
  /\ CappedOn(JObj(<< <<"payResult", JObj(<< >>)>> >>), NoFlagFound)
  /\ CappedOn(JObj(<< <<"invoice", L_invoice>> >>), NoInvoiceFound)
  /\ CappedOn(JObj(<< <<"message", JStr(<<"m", "1">>)>> >>), NoErrorFound)
  /\ CappedOn(JObj(<< <<"balance", JNum(5000)>>, <<"pending", JNum(100)>> >>), NoAmountFound)

\* C40: each recursive extractor (success, proof, invoice, error, amount)
\* has a depth past which it descends no further, so that a proof, a flag,
\* an invoice, a message or an amount nested deeper is not found; and the
\* response of a payment made in a run, put under MaxNest objects, yields
\* neither a proof nor a verdict from a flag.
C40_DescentCapped ==
  /\ ExtractorsCapped
  /\ \A t \in Tasks :
       (/\ task[t].pc = "getBalance"
        /\ task[t].wallet # Nil
        /\ task[t].wallet.type = "api") =>
         LET deep == Nest(walletCalls[t][Len(walletCalls[t]) - 1].response, MaxNest) IN
         NoProofFound(deep) /\ NoFlagFound(deep)

====
